---- MODULE Spec2Model ----
(***************************************************************************)
(* A model of vacuum-ballet's waypoint navigation controller               *)
(* (src/src/main.py): the dance coroutine, its origin resolution, the      *)
(* preflight sequence, the per-waypoint loop and _wait_until_near, with    *)
(* the pattern generators and _clamp_radius as operators.                  *)
(*                                                                         *)
(* Points are pairs <<x, y>> of integer millimetres; Python's None is the  *)
(* empty tuple.  Durations are integer milliseconds (the code's seconds    *)
(* times 1000).  One action is one stretch of a coroutine between two      *)
(* awaits; the device, the cloud and the map parser are the environment    *)
(* and answer nondeterministically.                                        *)
(***************************************************************************)
EXTENDS Integers, Sequences, FiniteSets, TLC

VARIABLES
    env,          \* os.environ as the code reads it (a record of settings)
    op,           \* the coroutine that runs and its arguments
    pattern,      \* dance(pattern, ...)
    size_arg,     \* dance(..., size, ...) as the caller passed it
    size,         \* dance's local `size` (requested, then clamped)
    beat_ms,      \* dance(..., beat_ms)
    latency,      \* the durations (ms) a telemetry read may take in this run
    pc,           \* position of the coroutine
    client,       \* TRUE once `client = await _client()` has returned
    origin,       \* the reads of the origin resolution in progress, in order
    trace,        \* the steps of the preflight, or of a single-command operation
    center,       \* dance's local `center`
    waypoints,    \* dance's local `waypoints`
    i,            \* the loop's index (enumerate(waypoints, 1))
    current_pos,  \* dance's local `current_pos` (the pre-check sample)
    target,       \* _wait_until_near's argument `target`
    threshold_mm, \* _wait_until_near's argument `threshold_mm`
    timeout_ms,   \* _wait_until_near's argument `timeout_s`, in ms
    elapsed,      \* loop.time() minus its value at _wait_until_near's entry
    pos,          \* _wait_until_near's local `pos`
    arrived,      \* _wait_until_near's return value (FALSE until it returns)
    w_ret,        \* where _wait_until_near returns to
    exc,          \* the exception being propagated ("" when none)
    result,       \* what the caller of dance gets: "running", "ok" or an error
    obs,          \* what an observer of the transport and the event loop records
    rng,          \* the process-wide generator of the random module
    gens          \* the spin_crazy generator objects the caller holds

vars == <<env, op, pattern, size_arg, size, beat_ms, latency, pc, client, origin, trace,
          center, waypoints, i,
          current_pos, target, threshold_mm, timeout_ms, elapsed, pos, arrived,
          w_ret, exc, result, obs, rng, gens>>

None == <<>>

---------------------------------------------------------------------------
(* Settings: the defaults the code passes to os.getenv.                    *)

MIN_DANCE_RADIUS_MM == 200
MAX_DANCE_RADIUS_MM == 1200
DOCK_BUFFER_MM == 300
ARRIVAL_THRESHOLD_MM == 250
WAYPOINT_TIMEOUT_MS == 35000
ARRIVAL_POLL_MS == 400
ARRIVAL_SETTLE_MS == 200
PREFLIGHT_START_DELAY_MS == 400
PREFLIGHT_PAUSE_DELAY_MS == 300
DEFAULT_CENTER_X == 0
DEFAULT_CENTER_Y == 0

DefaultEnv ==
    [ min_mm |-> MIN_DANCE_RADIUS_MM,
      max_mm |-> MAX_DANCE_RADIUS_MM,
      buffer_mm |-> DOCK_BUFFER_MM,
      arrival_mm |-> ARRIVAL_THRESHOLD_MM,
      hop_timeout_ms |-> WAYPOINT_TIMEOUT_MS,
      poll_ms |-> ARRIVAL_POLL_MS,
      settle_ms |-> ARRIVAL_SETTLE_MS,
      preflight |-> "unset",
      start_delay_ms |-> PREFLIGHT_START_DELAY_MS,
      pause_delay_ms |-> PREFLIGHT_PAUSE_DELAY_MS,
      default_center |-> <<DEFAULT_CENTER_X, DEFAULT_CENTER_Y>> ]

---------------------------------------------------------------------------
(* Integer helpers.                                                        *)

Abs(n) == IF n < 0 THEN -n ELSE n

Sign(n) == IF n < 0 THEN -1 ELSE IF n > 0 THEN 1 ELSE 0

Max(a, b) == IF a >= b THEN a ELSE b

Min(a, b) == IF a <= b THEN a ELSE b

(* The square of the Euclidean distance of two points. The code compares   *)
(* ((dx**2 + dy**2) ** 0.5) <= threshold; for integer millimetres that is  *)
(* dx**2 + dy**2 <= threshold**2 when the threshold is not negative.       *)
Dist2(p, q) == (p[1] - q[1]) * (p[1] - q[1]) + (p[2] - q[2]) * (p[2] - q[2])

(* distance_mm <= threshold_mm, as both coroutines test it.                *)
WithinThreshold(p, q, thr) == thr >= 0 /\ Dist2(p, q) <= thr * thr

RECURSIVE Log2Floor(_)
Log2Floor(n) == IF n < 2 THEN 0 ELSE 1 + Log2Floor(n \div 2)

RECURSIVE Pow2(_)
Pow2(e) == IF e <= 0 THEN 1 ELSE 2 * Pow2(e - 1)

---------------------------------------------------------------------------
(* Geometry helpers.  A trigonometric value is kept as an integer number   *)
(* of 1e-8; int(c + r * v) is computed exactly from it, truncating toward  *)
(* zero as Python's int() does.                                            *)

TrigScale == 100000000

TrigLimb == 10000

(* cos and sin of 2*pi*k/20, k = 0..19, in units of 1e-8.                  *)
Cos20 ==
    << 100000000, 95105652, 80901699, 58778525, 30901699, 0, -30901699,
       -58778525, -80901699, -95105652, -100000000, -95105652, -80901699,
       -58778525, -30901699, 0, 30901699, 58778525, 80901699, 95105652 >>

Sin20 ==
    << 0, 30901699, 58778525, 80901699, 95105652, 100000000, 95105652,
       80901699, 58778525, 30901699, 0, -30901699, -58778525, -80901699,
       -95105652, -100000000, -95105652, -80901699, -58778525, -30901699 >>

(* math.cos(pi/2), math.sin(pi) and math.cos(3*pi/2) are not 0.0 but       *)
(* 6.1e-17, 1.2e-16 and -1.8e-16: the residue, in units of 2^-53 * 1e-5,   *)
(* of the table entries that are 0 (0 where the float is exactly 0.0).     *)
CosResidue20 == [k \in 1..20 |-> IF k = 6 THEN 55153 ELSE IF k = 16 THEN -165460 ELSE 0]

SinResidue20 == [k \in 1..20 |-> IF k = 11 THEN 110306 ELSE 0]

ResidueScale == 100000

(* int(c + r * t) for a float t of a few 1e-16 (residue m): the sum rounds *)
(* to the double c unless r * t reaches half the spacing of the doubles    *)
(* just inside |c|, and then int() cuts the result to |c| - 1.             *)
TruncTiny(c, r, m) ==
    LET s == Sign(r) * Sign(m)
        a == Abs(c)
        e == Log2Floor(a - 1)
        moved == IF a = 1 THEN 2 * Abs(r) * Abs(m) > ResidueScale
                 ELSE IF e > 13 THEN FALSE
                 ELSE Abs(r) * Abs(m) > Pow2(e) * ResidueScale
    IN  IF c = 0 \/ s = 0 \/ s = Sign(c) THEN c
        ELSE IF moved THEN c - Sign(c) ELSE c

(* int(c + r * v / 1e8) for a table entry v that is not 0.                 *)
TruncScaled(c, r, v) ==
    LET s == Sign(r) * Sign(v)
        q == Abs(r) * (Abs(v) \div TrigLimb)
        lo == (q % TrigLimb) * TrigLimb + Abs(r) * (Abs(v) % TrigLimb)
        ip == (q \div TrigLimb) + (lo \div TrigScale)
        fr == lo % TrigScale
    IN  IF s >= 0
        THEN IF c + ip >= 0 \/ fr = 0 THEN c + ip ELSE c + ip + 1
        ELSE IF c - ip >= 1 /\ fr # 0 THEN c - ip - 1 ELSE c - ip

(* int(c + r * t), t the float whose table entry is v and residue m.       *)
TruncCoord(c, r, v, m) == IF v = 0 THEN TruncTiny(c, r, m) ELSE TruncScaled(c, r, v)

CircleSteps == 20

\* circle yielding its first point once more at the end (a closed loop)
circle_closed(c, radius_mm, steps) ==
    [k \in 1..(steps + 1) |->
        LET j == ((k - 1) % steps) * (CircleSteps \div steps) + 1
        IN  << TruncCoord(c[1], radius_mm, Cos20[j], CosResidue20[j]),
               TruncCoord(c[2], radius_mm, Sin20[j], SinResidue20[j]) >>]

(* circle(center, radius_mm, steps) for the step counts that divide 20     *)
(* (the default, 20, is the one dance uses): point k is at 2*pi*k/steps.   *)
circle(c, radius_mm, steps) ==
    [k \in 1..steps |->
        LET j == (k - 1) * (CircleSteps \div steps) + 1
        IN  << TruncCoord(c[1], radius_mm, Cos20[j], CosResidue20[j]),
               TruncCoord(c[2], radius_mm, Sin20[j], SinResidue20[j]) >>]

\* the four corners without the closing point
square_open(c, half_mm) ==
    << <<c[1] - half_mm, c[2] - half_mm>>,
       <<c[1] + half_mm, c[2] - half_mm>>,
       <<c[1] + half_mm, c[2] + half_mm>>,
       <<c[1] - half_mm, c[2] + half_mm>> >>

\* the corners listed the other way round
square_reversed(c, half_mm) ==
    << <<c[1] - half_mm, c[2] - half_mm>>,
       <<c[1] - half_mm, c[2] + half_mm>>,
       <<c[1] + half_mm, c[2] + half_mm>>,
       <<c[1] + half_mm, c[2] - half_mm>>,
       <<c[1] - half_mm, c[2] - half_mm>> >>

square(c, half_mm) ==
    << <<c[1] - half_mm, c[2] - half_mm>>,
       <<c[1] + half_mm, c[2] - half_mm>>,
       <<c[1] + half_mm, c[2] + half_mm>>,
       <<c[1] - half_mm, c[2] + half_mm>>,
       <<c[1] - half_mm, c[2] - half_mm>> >>

(* cos and sin of 2*pi*j/20 for j = 0..20: figure_eight's last angle is    *)
(* 2*pi itself, where math.cos is 1.0 and math.sin is -2.4e-16.            *)
CosAt(j) == IF j = CircleSteps THEN TrigScale ELSE Cos20[j + 1]

SinAt(j) == IF j = CircleSteps THEN 0 ELSE Sin20[j + 1]

CosResidueAt(j) == IF j = CircleSteps THEN 0 ELSE CosResidue20[j + 1]

SinResidueAt(j) == IF j = CircleSteps THEN -220613 ELSE SinResidue20[j + 1]

(* The product of two table entries, in units of 1e-8.                     *)
MulTrig(a, b) ==
    LET a1 == Abs(a) \div TrigLimb
        a0 == Abs(a) % TrigLimb
        b1 == Abs(b) \div TrigLimb
        b0 == Abs(b) % TrigLimb
    IN  Sign(a) * Sign(b)
            * (a1 * b1 + ((a1 * b0 + a0 * b1 + ((a0 * b0) \div TrigLimb)) \div TrigLimb))

ZeroDivisionError == "ZeroDivisionError: float division by zero"

\* the angle taken as 2 * math.pi * i / steps, as circle does
figure_eight_divisor_steps(steps) == steps

\* t = 2 * math.pi * i / (steps - 1)
figure_eight_divisor(steps) == steps - 1

\* the first iteration divides by zero
figure_eight_raises(steps) == steps >= 1 /\ figure_eight_divisor(steps) = 0

(* figure_eight with its default of 24 steps, the call dance makes: sin t   *)
(* and sin t * cos t at t = 2*pi*i/23, i = 0..23, in units of 1e-8.  The   *)
(* last angle is 2*pi, where both are -2.4e-16.                            *)
FigureEightSteps == 24

FigureEightSin23 ==
    << 0, 26979677, 51958395, 73083596, 88788522, 97908409,
       99766877, 94226092, 81696989, 63108794, 39840109, 13616665,
       -13616665, -39840109, -63108794, -81696989, -94226092, -99766877,
       -97908409, -88788522, -73083596, -51958395, -26979677, 0 >>

FigureEightSinCos23 ==
    << 0, 25979198, 44394261, 49883438, 40848495, 19920054,
       -6808332, -31554397, -47113046, -48954204, -36541798, -13489839,
       13489839, 36541798, 48954204, 47113046, 31554397, 6808332,
       -19920054, -40848495, -49883438, -44394261, -25979198, 0 >>

FigureEightResidue23(k) == IF k = FigureEightSteps THEN -220613 ELSE 0

(* figure_eight(center, radius_mm, steps) for the step counts whose        *)
(* steps - 1 divides 20 and for the default, 24: point k is at             *)
(* t = 2*pi*(k-1)/(steps-1), (int(cx + r*sin t), int(cy + r*sin t*cos t)). *)
figure_eight(c, radius_mm, steps) ==
    IF figure_eight_divisor(steps) = FigureEightSteps - 1
    THEN [k \in 1..steps |->
            << TruncCoord(c[1], radius_mm, FigureEightSin23[k], FigureEightResidue23(k)),
               TruncCoord(c[2], radius_mm, FigureEightSinCos23[k],
                          FigureEightResidue23(k)) >>]
    ELSE [k \in 1..steps |->
            LET j == (k - 1) * (CircleSteps \div figure_eight_divisor(steps))
                S == SinAt(j)
                C == CosAt(j)
            IN  << TruncCoord(c[1], radius_mm, S, SinResidueAt(j)),
                   IF S = 0 THEN TruncTiny(c[2], radius_mm * Sign(C), SinResidueAt(j))
                   ELSE IF C = 0 THEN TruncTiny(c[2], radius_mm * Sign(S), CosResidueAt(j))
                   ELSE TruncScaled(c[2], radius_mm, MulTrig(S, C)) >>]

(* lissajous with its defaults a = 3, b = 2, delta = pi/2 and 32 steps:    *)
(* sin(3t + pi/2) and sin(2t) at t = 2*pi*i/32, i = 0..31, in units of     *)
(* 1e-8, and the residues of the floats whose entry is 0.                  *)
LissajousSteps == 32

LissajousX ==
    << 100000000, 83146961, 38268343, -19509032, -70710678, -98078528,
       -92387953, -55557023, 0, 55557023, 92387953, 98078528,
       70710678, 19509032, -38268343, -83146961, -100000000, -83146961,
       -38268343, 19509032, 70710678, 98078528, 92387953, 55557023,
       0, -55557023, -92387953, -98078528, -70710678, -19509032,
       38268343, 83146961 >>

LissajousY ==
    << 0, 38268343, 70710678, 92387953, 100000000, 92387953,
       70710678, 38268343, 0, -38268343, -70710678, -92387953,
       -100000000, -92387953, -70710678, -38268343, 0, 38268343,
       70710678, 92387953, 100000000, 92387953, 70710678, 38268343,
       0, -38268343, -70710678, -92387953, -100000000, -92387953,
       -70710678, -38268343 >>

LissajousResidueX(k) == IF k = 9 THEN -220613 ELSE IF k = 25 THEN 551532 ELSE 0

LissajousResidueY(k) ==
    IF k = 9 THEN 110306 ELSE IF k = 17 THEN -220613 ELSE IF k = 25 THEN 330919 ELSE 0

(* lissajous(center, ax=ax, ay=ay), the call dance makes.                  *)
lissajous(c, ax, ay) ==
    [k \in 1..LissajousSteps |->
        << TruncCoord(c[1], ax, LissajousX[k], LissajousResidueX(k)),
           TruncCoord(c[2], ay, LissajousY[k], LissajousResidueY(k)) >>]


(* spin_crazy.  One iteration calls random.random() six times: for the    *)
(* jerk factor, the angle jitter, the radius factor, the two jerk offsets  *)
(* and the number compared with 0.2; after a number below 0.2 it calls it  *)
(* twice more, for the jerk distance and the jerk angle.  random.seed(42)  *)
(* fixes every value.  A block is what one iteration draws, in units of    *)
(* 1e-8; Seed42Blocks[k] is the block of the k-th iteration after the      *)
(* seed, for the first twelve:                                             *)
(*   jerk_factor      uniform(0.3, 1.8)                                    *)
(*   cos_jitter, sin_jitter   of angle_jitter = uniform(-pi/2, pi/2)       *)
(*   radius_factor    uniform(0.2, 1.0)                                    *)
(*   jerk_x, jerk_y   uniform(-0.3 r, 0.3 r) for r = 1                     *)
(*   dramatic         random() < 0.2                                       *)
(*   jerk_distance    uniform(0.5, 1.2), 0 when not drawn                  *)
(*   cos_jerk, sin_jerk   of jerk_angle = uniform(0, 2 pi), 0 when not     *)
(*                    drawn                                                *)
Seed42Blocks ==
    <<
      [jerk_factor |-> 125914020, cos_jitter |-> 7849278, sin_jitter |-> -99691468,
       radius_factor |-> 42002345, jerk_x |-> -16607356, jerk_y |-> 14188273,
       dramatic |-> FALSE, jerk_distance |-> 0, cos_jerk |-> 0,
       sin_jerk |-> 0],
      [jerk_factor |-> 163826935, cos_jitter |-> 26974326, sin_jitter |-> -96293228,
       radius_factor |-> 53753746, jerk_x |-> -28212167, jerk_y |-> -16881722,
       dramatic |-> FALSE, jerk_distance |-> 0, cos_jerk |-> 0,
       sin_jerk |-> 0],
      [jerk_factor |-> 33980395, cos_jitter |-> 58482711, sin_jitter |-> -81115797,
       radius_factor |-> 71990755, jerk_x |-> 2696489, jerk_y |-> -16773563,
       dramatic |-> FALSE, jerk_distance |-> 0, cos_jerk |-> 0,
       sin_jerk |-> 0],
      [jerk_factor |-> 151414569, cos_jitter |-> 2041504, sin_jitter |-> -99979159,
       radius_factor |-> 84465540, jerk_x |-> 11888364, jerk_y |-> -9584969,
       dramatic |-> TRUE, jerk_distance |-> 117004915, cos_jerk |-> -51763935,
       sin_jerk |-> 85559892],
      [jerk_factor |-> 43911877, cos_jitter |-> 29918981, sin_jitter |-> -95419362,
       radius_factor |-> 87799549, jerk_x |-> 6223562, jerk_y |-> 18427696,
       dramatic |-> FALSE, jerk_distance |-> 0, cos_jerk |-> 0,
       sin_jerk |-> 0],
      [jerk_factor |-> 110434214, cos_jitter |-> 8435894, sin_jitter |-> 99643543,
       radius_factor |-> 50282750, jerk_x |-> 3122438, jerk_y |-> 19764280,
       dramatic |-> FALSE, jerk_distance |-> 0, cos_jerk |-> 0,
       sin_jerk |-> 0],
      [jerk_factor |-> 159256035, cos_jitter |-> 97061835, sin_jitter |-> 24062424,
       radius_factor |-> 76365747, jerk_x |-> -27250537, jerk_y |-> -16326103,
       dramatic |-> FALSE, jerk_distance |-> 0, cos_jerk |-> 0,
       sin_jerk |-> 0],
      [jerk_factor |-> 41968797, cos_jitter |-> 66786321, sin_jitter |-> -74428404,
       radius_factor |-> 28080114, jerk_x |-> -13321584, jerk_y |-> 8141067,
       dramatic |-> FALSE, jerk_distance |-> 0, cos_jerk |-> 0,
       sin_jerk |-> 0],
      [jerk_factor |-> 85527145, cos_jitter |-> 61168260, sin_jitter |-> -79110328,
       radius_factor |-> 41358226, jerk_x |-> 26199275, jerk_y |-> 8882123,
       dramatic |-> FALSE, jerk_distance |-> 0, cos_jerk |-> 0,
       sin_jerk |-> 0],
      [jerk_factor |-> 55670797, cos_jitter |-> 75192239, sin_jitter |-> 65925164,
       radius_factor |-> 33072200, jerk_x |-> -7232673, jerk_y |-> 29371401,
       dramatic |-> FALSE, jerk_distance |-> 0, cos_jerk |-> 0,
       sin_jerk |-> 0],
      [jerk_factor |-> 113542462, cos_jitter |-> 83647209, sin_jitter |-> 54800953,
       radius_factor |-> 87428154, jerk_x |-> 16559995, jerk_y |-> -16257116,
       dramatic |-> TRUE, jerk_distance |-> 72081713, cos_jerk |-> -11123851,
       sin_jerk |-> 99379374],
      [jerk_factor |-> 61647427, cos_jitter |-> 17839439, sin_jitter |-> 98395907,
       radius_factor |-> 90109410, jerk_x |-> -11119327, jerk_y |-> 9326320,
       dramatic |-> FALSE, jerk_distance |-> 0, cos_jerk |-> 0,
       sin_jerk |-> 0] >>

(* The iterations after random.seed(42), counted from 0, whose sixth       *)
(* number is below 0.2, among the first 237.                               *)
Seed42Dramatic ==
    {3, 10, 26, 31, 37, 47, 48, 49, 52, 55, 65, 68,
      78, 81, 85, 98, 100, 102, 103, 110, 132, 134, 157, 163,
      166, 173, 174, 179, 183, 187, 188, 192, 202, 209, 222, 224,
      229, 230}

(* The point of iteration i0 (from 0) of spin_crazy(center, radius_mm,     *)
(* steps) when its draws are block b, for the step counts that divide 12:  *)
(* base_angle = 2*pi*i/steps*3 is then a whole number q of quarter turns,  *)
(* and cos and sin of actual_angle are, up to sign, those of the jitter.   *)
spin_point(c, radius_mm, i0, steps, b) ==
    IF b.dramatic
    THEN << TruncScaled(c[1], radius_mm, MulTrig(b.jerk_distance, b.cos_jerk)),
            TruncScaled(c[2], radius_mm, MulTrig(b.jerk_distance, b.sin_jerk)) >>
    ELSE LET q == ((12 * i0) \div steps) % 4
             cos_actual == IF q = 0 THEN b.cos_jitter
                           ELSE IF q = 1 THEN -b.sin_jitter
                           ELSE IF q = 2 THEN -b.cos_jitter
                           ELSE b.sin_jitter
             sin_actual == IF q = 0 THEN b.sin_jitter
                           ELSE IF q = 1 THEN b.cos_jitter
                           ELSE IF q = 2 THEN -b.sin_jitter
                           ELSE -b.cos_jitter
             current_radius == MulTrig(b.jerk_factor, b.radius_factor)
         IN  << TruncScaled(c[1], radius_mm,
                            MulTrig(current_radius, cos_actual) + b.jerk_x),
                TruncScaled(c[2], radius_mm,
                            MulTrig(current_radius, sin_actual) + b.jerk_y) >>

(* list(spin_crazy((0, 0), 10**8, steps)) for 5, 10 and 237 steps: the     *)
(* offsets of the points from the center per unit radius, in units of      *)
(* 1e-8, when the generator is consumed alone.                             *)
SpinSeed42Offsets(steps) ==
    CASE steps = 5 ->
           << <<-12456120, -38535396>>, <<-97273398, 37759456>>, <<25989389, -9299166>>,
              <<-60566347, 100109278>>, <<18515149, 54970286>> >>
      [] steps = 10 ->
           << <<-12456120, -38535396>>, <<45095775, 31914360>>, <<-20541203, -9129253>>,
              <<-60566347, 100109278>>, <<44775940, 18029983>>, <<-1561960, -35567141>>,
              <<37058717, -119549304>>, <<-1798418, 5671210>>, <<25142953, 44238857>>,
              <<33056, 12454114>> >>
      [] steps = 237 ->
           << <<-12456120, -38535396>>, <<2204452, -99525180>>, <<19965465, -34100081>>,
              <<-60566347, 100109278>>, <<28687108, -12906519>>, <<-13986971, 72592093>>,
              <<64164792, 63885784>>, <<-2004569, 4853404>>, <<60229781, -768737>>,
              <<-4751603, 47615022>>, <<-8018262, 71634355>>, <<-46714982, 51973319>>,
              <<31518188, 54271671>>, <<-56830981, 76101969>>, <<19606024, 13703109>>,
              <<28598932, 57106314>>, <<-6884062, 7831969>>, <<38044809, 46534759>>,
              <<111396149, 27946602>>, <<92090721, 56842350>>, <<29039013, 28311055>>,
              <<92812717, -5783729>>, <<-49869486, 16312709>>, <<-54478198, 7684517>>,
              <<24024535, 54309674>>, <<15097562, 4231212>>, <<-32488378, -58207422>>,
              <<36483925, 47701263>>, <<8915787, 35275849>>, <<-155927070, 33564604>>,
              <<-4518977, 51377441>>, <<61724732, -102849430>>, <<-133528677, -105123021>>,
              <<43937104, 28788228>>, <<-44104266, 62965799>>, <<-23433862, 46096793>>,
              <<-2067393, -20230709>>, <<2670683, 112288356>>, <<-56709805, -14773789>>,
              <<-25276102, -3845077>>, <<-15970944, 15150555>>, <<14007345, 34755326>>,
              <<-35185311, 63615747>>, <<-44661157, 114177341>>, <<-6256337, -2896422>>,
              <<-99898672, 45456050>>, <<-74462761, 28701130>>, <<41018664, -37039414>>,
              <<57637459, -42442259>>, <<78090451, -69604193>>, <<15515985, -5708956>>,
              <<31389755, -38619889>>, <<70027933, -86189112>>, <<5494903, -13921223>>,
              <<6617688, 25094654>>, <<51169471, 106248333>>, <<-45870993, -13499338>>,
              <<-4166383, -75540856>>, <<31198932, 8275055>>, <<-70854692, -23459380>>,
              <<-38685192, -57903240>>, <<5472414, -22296275>>, <<-7351393, -18244651>>,
              <<-3891955, -71345661>>, <<-23604325, -23637927>>, <<-66321359, 10446038>>,
              <<-52555057, -76337598>>, <<-43770572, -59110679>>, <<39070010, -54974641>>,
              <<100727215, 16642412>>, <<119010776, -25111411>>, <<80170553, -2872910>>,
              <<76140885, -73156837>>, <<805136, -54778574>>, <<-11365306, -75212866>>,
              <<47649237, 72025819>>, <<6059293, -19692192>>, <<54377519, 17522998>>,
              <<57516318, 59447679>>, <<9240548, -91691993>>, <<4832815, -17793715>>,
              <<-49789649, -12590264>>, <<142989577, -20791451>>, <<9362242, -44291604>>,
              <<92881858, -60772371>>, <<-31665799, -64481258>>, <<105082905, 42282884>>,
              <<9150637, 17002142>>, <<70012815, 19044032>>, <<17125854, 51661304>>,
              <<111739102, 52905051>>, <<51489055, 33770783>>, <<119729565, -38721917>>,
              <<52305070, -44730900>>, <<-58392166, 12819333>>, <<5792614, 34819158>>,
              <<-35058733, 33229735>>, <<11741242, 86179585>>, <<6695839, -87253936>>,
              <<39435708, 50448360>>, <<-13297112, 86371892>>, <<-67773319, 147674942>>,
              <<-114741840, 16161638>>, <<-29666515, 84332901>>, <<108708609, 120654092>>,
              <<1487180, 85995772>>, <<-50814262, 41482599>>, <<-7603590, 10094701>>,
              <<8756193, 57897039>>, <<-85168154, -50540231>>, <<-21819696, 57621690>>,
              <<-79518523, 34018653>>, <<-113910189, 22668573>>, <<20396496, 40260821>>,
              <<-58605789, -146817461>>, <<-111107029, -13300219>>, <<-14354421, 59651780>>,
              <<-3493821, 2735985>>, <<-8386992, 20515383>>, <<-102414364, -76365830>>,
              <<-118768500, -53968190>>, <<9019835, -14294724>>, <<-55650492, 14899858>>,
              <<-57180882, 77177363>>, <<-21086407, -66581847>>, <<-108335670, -91964314>>,
              <<40488415, -64747967>>, <<22430854, -52319514>>, <<-50651613, -68216789>>,
              <<-122362521, 14865751>>, <<-74901419, -29750070>>, <<9298187, 2325330>>,
              <<81317873, -15934320>>, <<31965787, -35990575>>, <<-37213609, -40212328>>,
              <<125379174, -59412688>>, <<-18128892, -141128740>>, <<-9205795, -16679091>>,
              <<-41290325, -26807983>>, <<-15974422, -50146593>>, <<31117829, -50598506>>,
              <<19758090, -68384034>>, <<-29422038, -28669397>>, <<60853455, -36380471>>,
              <<40126896, -28510003>>, <<13508233, -74973014>>, <<114220616, 18586588>>,
              <<36675061, -56485929>>, <<15085667, -31192494>>, <<11052181, -113947513>>,
              <<-42805082, -47483877>>, <<96689137, 101841659>>, <<27287213, 3928019>>,
              <<8316150, 8150022>>, <<-2447411, 55352917>>, <<47081307, -23545665>>,
              <<3972008, 22210952>>, <<-70598834, 45984676>>, <<5400601, -58260608>>,
              <<51166095, 9082860>>, <<23815655, -34212851>>, <<14462429, -117023608>>,
              <<-11039093, 35638826>>, <<30855156, 60086550>>, <<31894275, -38937310>>,
              <<30977866, -18703907>>, <<70295884, -77762174>>, <<61333821, 56688578>>,
              <<63384994, 60225630>>, <<30658834, -5779369>>, <<27712209, 66371201>>,
              <<-47161998, 91557247>>, <<145726, 31070574>>, <<-3992389, -56618926>>,
              <<-37914045, -64423338>>, <<-61168305, 71541762>>, <<56522330, 19221699>>,
              <<-20451059, 61184931>>, <<-68555263, 127193989>>, <<-101401104, -44883119>>,
              <<23487192, 52003373>>, <<24319151, 61392855>>, <<19274099, 17157399>>,
              <<-16609708, 78352786>>, <<-69771394, 80558065>>, <<-21223108, -3186571>>,
              <<-17697303, 13686574>>, <<74136170, -87234238>>, <<23049841, -68984828>>,
              <<-131904706, -20543738>>, <<-64397138, 20810616>>, <<-13636738, 31838852>>,
              <<5911700, -91978143>>, <<-21072342, 118209029>>, <<-23211094, -47674108>>,
              <<-12059568, 18573546>>, <<-20032733, -24931002>>, <<-9599135, -32362598>>,
              <<-62796530, -66173232>>, <<-51351844, -24861719>>, <<-51295761, -52812393>>,
              <<-37092538, -23775918>>, <<-20755812, 95251375>>, <<-54304735, -112694720>>,
              <<-37931053, -8735271>>, <<-68079648, 18937531>>, <<-15062428, -105533065>>,
              <<-44648018, 17627517>>, <<4685133, -18926568>>, <<40006794, 65053001>>,
              <<15530913, -129881408>>, <<-83654779, -3088243>>, <<-81124314, -29001763>>,
              <<77631542, -44052705>>, <<77189106, -123939165>>, <<20407841, -24375434>>,
              <<-118163810, -95504445>>, <<-33639439, -56714838>>, <<4340600, 27236397>>,
              <<21594696, 272447>>, <<-8079021, -43681285>>, <<54629405, -132531152>>,
              <<-93056275, -64738575>>, <<-15196924, -15423676>>, <<-86732152, -3996082>>,
              <<62859027, -56366838>>, <<-50795255, -24433584>>, <<40461976, -1072578>>,
              <<43472289, 13065128>>, <<48362173, -21518520>>, <<14440681, -73584616>>,
              <<17747217, -17066770>>, <<116971160, -110162462>>, <<42982334, 55692780>>,
              <<30220786, -32797404>>, <<13488735, 41334400>>, <<151627404, -150848685>> >>

(* list(spin_crazy(center, radius_mm, steps)): the points of one generator *)
(* consumed alone, whose iteration k draws the k-th block after the seed.  *)
spin_crazy_steps(c, radius_mm, steps) ==
    IF 12 % steps = 0
    THEN [k \in 1..steps |-> spin_point(c, radius_mm, k - 1, steps, Seed42Blocks[k])]
    ELSE [k \in 1..steps |->
            << TruncScaled(c[1], radius_mm, SpinSeed42Offsets(steps)[k][1]),
               TruncScaled(c[2], radius_mm, SpinSeed42Offsets(steps)[k][2]) >>]

(* The generator of the random module: whether the program has called      *)
(* random.seed(42), and since then how many iterations of spin_crazy have  *)
(* drawn from it (pos) and how many times random.random() was called.      *)
Rng0 == [seeded |-> FALSE, pos |-> 0, calls |-> 0]

\* a seed call that does not restart the sequence
random_seed_kept(g) == [g EXCEPT !.seeded = TRUE]

\* random.seed(42)
random_seed(g) == [seeded |-> TRUE, pos |-> 0, calls |-> 0]

\* the generator state after the draws of one iteration
Drawn(g) ==
    [g EXCEPT !.pos = @ + 1,
              !.calls = @ + (IF g.pos \in Seed42Dramatic THEN 8 ELSE 6)]

\* the generator state after the draws of n iterations
RECURSIVE DrawnTimes(_, _)
DrawnTimes(g, n) == IF n = 0 THEN g ELSE Drawn(DrawnTimes(g, n - 1))

(* The point iteration i0 yields in generator state g.  With a step count  *)
(* that does not divide 12 the generator is consumed alone (g.pos = i0).   *)
SpinYield(c, radius_mm, i0, steps, g) ==
    IF 12 % steps = 0
    THEN spin_point(c, radius_mm, i0, steps, Seed42Blocks[g.pos + 1])
    ELSE spin_crazy_steps(c, radius_mm, steps)[i0 + 1]

(* spin_crazy(center, radius_mm) with its default of 20 steps, consumed in *)
(* one go as dance does (waypoints = list(points)): random.seed(42) makes  *)
(* the draws the same at every call, and a point is the center plus the    *)
(* radius times a fixed offset.  The offsets, in units of 1e-8, are the    *)
(* points of list(spin_crazy((0, 0), 100000000)).                          *)
SpinSteps == 20

SpinSeed42X ==
    << -12456120, 54354020, 17147501, -60566347, -24732197,
       58453859, 85449818, -3125629, 59499106, -25189735,
       -8018262, 27275925, -2542780, 19434652, 16443726,
       16066785, -21376382, 1076120, -72542734, -41477462 >>

SpinSeed42Y ==
    << -38535396, -47507475, 2964574, 100109278, 41409972,
       15079881, -62035395, 2231239, 20812576, 33437033,
       71634355, -30818689, -64007275, 79069621, 8566949,
       64977262, -15528659, 19683397, -35999711, -71254811 >>

\* the draws negated, as a seed other than 42 could give them
spin_crazy_other_seed(c, radius_mm) ==
    [k \in 1..SpinSteps |->
        << TruncScaled(c[1], radius_mm, -SpinSeed42X[k]),
           TruncScaled(c[2], radius_mm, -SpinSeed42Y[k]) >>]

spin_crazy(c, radius_mm) ==
    [k \in 1..SpinSteps |->
        << TruncScaled(c[1], radius_mm, SpinSeed42X[k]),
           TruncScaled(c[2], radius_mm, SpinSeed42Y[k]) >>]

---------------------------------------------------------------------------
(* Helpers of dance.                                                       *)

\* the clamp without its lower bound: min(size, max_mm)
_clamp_radius_no_min(sz, e) == Min(sz, e.max_mm)

\* the clamp taking the size for a diameter: max(min_mm, min(size // 2, max_mm))
_clamp_radius_of_diameter(sz, e) == Max(e.min_mm, Min(sz \div 2, e.max_mm))

\* the bounds applied in the other order: min(max_mm, max(size, min_mm))
_clamp_radius_min_last(sz, e) == Min(e.max_mm, Max(sz, e.min_mm))

_clamp_radius(sz, e) == Max(e.min_mm, Min(sz, e.max_mm))

_offset_center_from_dock(dock, radius_mm, e) ==
    <<dock[1], dock[2] + (e.buffer_mm + radius_mm)>>

---------------------------------------------------------------------------
(* Telemetry.  One fetch of the map (client.get_map_v1 and the parser)     *)
(* ends in one of four ways; a helper returns [exc, val]: the exception    *)
(* that leaves it ("" when none) and its value.                            *)

DockSamples == { <<1000, 2000>> }

PosSamples == { <<1000, 2500>>, <<1350, 2900>> }

MapOutcomes ==
    { [kind |-> k, charger |-> None, vacuum_position |-> None] :
        k \in {"raise", "empty", "unparseable"} }
    \cup
    { [kind |-> "ok", charger |-> c, vacuum_position |-> v] :
        c \in DockSamples \cup {None}, v \in PosSamples \cup {None} }

NoData == [present |-> FALSE, charger |-> None, vacuum_position |-> None]

Returned(v) == [exc |-> "", val |-> v]

\* the body without try/except: what the fetch or the parser raises leaves it
_parse_map_data_unguarded(o) ==
    IF o.kind = "ok"
    THEN Returned([present |-> TRUE, charger |-> o.charger,
                   vacuum_position |-> o.vacuum_position])
    ELSE IF o.kind = "empty" THEN Returned(NoData)
    ELSE [exc |-> "Exception: map", val |-> NoData]

(* try: raw = await client.get_map_v1(); if not raw: return None;          *)
(* return parser.parse(raw); except Exception: return None                 *)
_parse_map_data(o) ==
    IF o.kind = "ok"
    THEN Returned([present |-> TRUE, charger |-> o.charger,
                   vacuum_position |-> o.vacuum_position])
    ELSE Returned(NoData)

_map_center(o) ==
    LET r == _parse_map_data(o)
    IN  IF r.exc # "" THEN r
        ELSE IF ~r.val.present THEN Returned(None)
        ELSE IF r.val.charger # None THEN Returned(r.val.charger)
        ELSE IF r.val.vacuum_position # None THEN Returned(r.val.vacuum_position)
        ELSE Returned(None)

_charger_position(o) ==
    LET r == _parse_map_data(o)
    IN  IF r.exc # "" THEN r
        ELSE IF ~r.val.present \/ r.val.charger = None THEN Returned(None)
        ELSE Returned(r.val.charger)

\* the position helper falling back on the charger, as _map_center does
_vacuum_position_or_charger(o) == _map_center(o)

_vacuum_position(o) ==
    LET r == _parse_map_data(o)
    IN  IF r.exc # "" THEN r
        ELSE IF ~r.val.present THEN Returned(None)
        ELSE IF r.val.vacuum_position # None THEN Returned(r.val.vacuum_position)
        ELSE Returned(None)

(* client.get_status(): it raises, returns nothing, or returns a status    *)
(* whose state_name is missing ("") or a name.                             *)
StatusOutcomes == {"raise", "none", "", "charging", "Cleaning", "going_to_target"}

\* a failed or empty status read taken as a state that needs no preflight
PreflightStateSkipsUnknown(st) ==
    IF st \in {"raise", "none", ""} THEN "returning"
    ELSE IF st = "Cleaning" THEN "cleaning"
    ELSE st

\* the `state` _ensure_ready_for_goto works with
PreflightState(st) ==
    IF st \in {"raise", "none", ""} THEN ""
    ELSE IF st = "Cleaning" THEN "cleaning"
    ELSE st

\* the set without the states of a robot that is already under way
no_op_states_only_spot == {"spot"}

no_op_states == {"going_to_target", "spot", "cleaning", "returning"}

\* os.getenv(key, default) for a variable whose value in os.environ is v
Getenv(v, default) == IF v = "unset" THEN default ELSE v

\* the flag ignored: preflight always runs
PreflightAlwaysEnabled(e) == TRUE

\* os.getenv("ENABLE_GOTO_PREFLIGHT", "1") in {"1", "true", "True"}
PreflightEnabled(e) == Getenv(e.preflight, "1") \in {"1", "true", "True"}

(* What a send_command may raise, and what _client may.                    *)
SendErrors == {"RuntimeError: Network error"}

ClientErrors == {"RuntimeError: No Roborock S4 Max found on this account"}

UnknownPattern == "ValueError: Unknown pattern"

(* What an error value tells its receiver about a waypoint: the index and  *)
(* the target it names (0 and None when it names none).  The handler of    *)
(* the waypoint loop logs the index and re-raises the exception it caught  *)
(* as it is, and no error of the model's names a waypoint.                 *)
ErrorIndex(e) == 0

ErrorTarget(e) == None

---------------------------------------------------------------------------
(* The inputs of a run.                                                    *)

Patterns == {"circle", "square", "polka"}

Sizes == {100, 5000}

MaxBeatSteps == 1

Beats == {-600} \cup {k * 600 : k \in 0..MaxBeatSteps}

DanceTimeouts == {600}

DanceEnvs ==
    { [DefaultEnv EXCEPT !.hop_timeout_ms = t, !.preflight = p] :
        t \in DanceTimeouts, p \in {"unset", "0"} }

\* other values of ENABLE_GOTO_PREFLIGHT, each tried on one dance
FlagEnvs ==
    { [DefaultEnv EXCEPT !.hop_timeout_ms = t, !.preflight = p] :
        t \in DanceTimeouts, p \in {"1", "true", "True", "false", "TRUE"} }

\* ARRIVAL_SETTLE_S set to zero and to a negative value
SettleEnvs ==
    { [DefaultEnv EXCEPT !.hop_timeout_ms = t, !.preflight = "0", !.settle_ms = d] :
        t \in DanceTimeouts, d \in {0, -200} }

\* the call dance(pattern, size, beat_ms)
DanceOp == [name |-> "dance", args |-> <<>>]

NoSummary == [kind |-> "none", delay |-> -1]

Obs0 ==
    [ lastOp |-> "none",      \* the last interaction with the transport
      disconnects |-> 0,      \* calls of async_disconnect
      preflights |-> 0,       \* calls of _ensure_ready_for_goto
      cancelled |-> "",       \* where a cancellation reached the coroutine ("": none)
      lateOps |-> FALSE,      \* an interaction followed a disconnect
      lastCmd |-> "none",     \* the RoborockCommand of the last send_command
      gotos |-> 0,            \* APP_GOTO_TARGET sends attempted
      sent |-> 0,             \* APP_GOTO_TARGET sends that returned
      lastGoto |-> 0,         \* the waypoint index of the last goto attempted
      lastPayload |-> None,   \* its payload
      skipped |-> 0,          \* waypoints the pre-check skipped
      failedAt |-> 0,         \* the waypoint whose goto send raised (0: none)
      raised |-> "",          \* what that send raised
      gate |-> "idle",        \* "open" from a goto until its _wait_until_near returns
      prev |-> NoSummary,     \* how the waypoint just handled ended
      reads |-> 0,            \* telemetry reads of the running _wait_until_near
      sleeps |-> 0,           \* its sleeps
      readDur |-> 0,          \* the duration of its last read
      onlyRaises |-> TRUE ]   \* every telemetry read so far has raised

Init ==
    /\ \/ /\ env \in DanceEnvs
          /\ pattern \in Patterns
          /\ size_arg \in Sizes
          /\ beat_ms \in Beats
       \/ /\ env \in FlagEnvs
          /\ pattern = "square"
          /\ size_arg = 100
          /\ beat_ms = 0
       \/ /\ env \in SettleEnvs
          /\ pattern = "square"
          /\ size_arg = 100
          /\ beat_ms = 0
    /\ op = DanceOp
    /\ size = size_arg
    /\ latency = {0}
    /\ pc = "client"
    /\ client = FALSE
    /\ origin = <<>>
    /\ trace = <<>>
    /\ center = None
    /\ waypoints = <<>>
    /\ i = 0
    /\ current_pos = None
    /\ target = None
    /\ threshold_mm = 0
    /\ timeout_ms = 0
    /\ elapsed = 0
    /\ pos = None
    /\ arrived = FALSE
    /\ w_ret = "delay"
    /\ exc = ""
    /\ result = "running"
    /\ obs = Obs0
    /\ rng = Rng0
    /\ gens = <<>>

---------------------------------------------------------------------------
(* Control-flow helpers.                                                   *)

\* an interaction with the transport, as the observer records it
Op(name, o) == [o EXCEPT !.lastOp = name, !.lateOps = @ \/ o.disconnects > 0]

\* client.send_command(name, ...), as the observer records it
Command(name, o) == [Op("send", o) EXCEPT !.lastCmd = name]

\* one step of a trace: a status read, a send_command or a sleep
Event(kind, arg, res, ms) == [op |-> kind, arg |-> arg, res |-> res, ms |-> ms]

\* a telemetry read (map fetch or status read) that ended as `kind`
Telemetry(name, kind, o) == [Op(name, o) EXCEPT !.onlyRaises = @ /\ kind = "raise"]

\* Raise without the finally clause: the exception goes straight to the caller
RaiseSkippingFinally(e) ==
    /\ pc' = "done"
    /\ exc' = e
    /\ result' = e

(* dance's try/finally: an exception raised inside the try block runs the  *)
(* finally clause before it reaches the caller.                            *)
Raise(e) ==
    /\ pc' = "finally"
    /\ exc' = e
    /\ result' = result

\* the loop with a second dispatch of the first waypoint after its gate
NextWaypointRetryFirst(k) ==
    IF k = 2 /\ obs.gotos = 1
    THEN /\ pc' = "precheck"
         /\ i' = 1
    ELSE IF k <= Len(waypoints)
    THEN /\ pc' = "precheck"
         /\ i' = k
    ELSE /\ pc' = "finally"
         /\ i' = i

\* the loop with _ensure_ready_for_goto called again before each later waypoint
NextWaypointViaPreflight(k) ==
    IF k > 1 /\ k <= Len(waypoints)
    THEN /\ pc' = "pf_status"
         /\ i' = i
    ELSE IF k <= Len(waypoints)
    THEN /\ pc' = "precheck"
         /\ i' = k
    ELSE /\ pc' = "finally"
         /\ i' = i

(* The for statement: the next waypoint, or the end of the loop and, with  *)
(* it, normal completion of the try block.                                 *)
NextWaypoint(k) ==
    IF k <= Len(waypoints)
    THEN /\ pc' = "precheck"
         /\ i' = k
    ELSE /\ pc' = "finally"
         /\ i' = i

\* the pattern dispatch of dance
Points(p, c, sz) ==
    IF p = "circle" THEN circle(c, sz, CircleSteps)
    ELSE IF p = "square" THEN square(c, sz)
    ELSE IF p = "figure8" THEN figure_eight(c, sz, FigureEightSteps)
    ELSE IF p = "lissajous" THEN lissajous(c, sz, sz)
    ELSE IF p = "spin_crazy" THEN spin_crazy(c, sz)
    ELSE <<>>

\* the dispatch without its else branch: any name goes on to the preflight
KnownPatternsAnyName == {"circle", "square", "figure8", "lissajous", "spin_crazy", "polka"}

KnownPatterns == {"circle", "square", "figure8", "lissajous", "spin_crazy"}

\* the fallback with the defaults the `where` command prints
FallbackCenterOfWhere(e) == <<32000, 27000>>

\* (int(os.getenv("DEFAULT_CENTER_X", "0")), int(os.getenv("DEFAULT_CENTER_Y", "0")))
FallbackCenter(e) == e.default_center

pollVars == <<target, threshold_mm, timeout_ms, elapsed, pos, arrived, w_ret>>

inputVars == <<env, op, pattern, size_arg, beat_ms, latency>>

randVars == <<rng, gens>>

---------------------------------------------------------------------------
(* dance: from the call to the generated waypoints.                        *)

\* the entry of dance with the requested size used as it is
DanceClientKeepsSize ==
    /\ pc = "client"
    /\ \/ /\ client' = TRUE
          /\ size' = size
          /\ pc' = "dock"
          /\ result' = result
       \/ \E e \in ClientErrors :
            /\ client' = FALSE
            /\ size' = size
            /\ pc' = "done"
            /\ result' = e
    /\ obs' = Op("connect", obs)
    /\ UNCHANGED <<inputVars, randVars, trace, origin, center, waypoints, i, current_pos, pollVars, exc>>

\* client = await _client(); size = _clamp_radius(size)
DanceClient ==
    /\ pc = "client"
    /\ \/ /\ client' = TRUE
          /\ size' = _clamp_radius(size, env)
          /\ pc' = "dock"
          /\ result' = result
       \/ \E e \in ClientErrors :
            /\ client' = FALSE
            /\ size' = size
            /\ pc' = "done"
            /\ result' = e
    /\ obs' = Op("connect", obs)
    /\ UNCHANGED <<inputVars, randVars, trace, origin, center, waypoints, i, current_pos, pollVars, exc>>

\* dock = await _charger_position(client); center = offset from it
DanceDock ==
    /\ pc = "dock"
    /\ \E o \in MapOutcomes :
         LET r == _charger_position(o)
         IN  /\ obs' = Telemetry("get_map", o.kind, obs)
             /\ IF r.exc # ""
                THEN /\ Raise(r.exc)
                     /\ UNCHANGED <<origin, center>>
                ELSE /\ origin' = Append(origin, <<"dock", r.val>>)
                     /\ exc' = exc
                     /\ result' = result
                     /\ IF r.val # None
                        THEN /\ center' = _offset_center_from_dock(r.val, size, env)
                             /\ pc' = "generate"
                        ELSE /\ center' = center
                             /\ pc' = "pos"
    /\ UNCHANGED <<inputVars, randVars, trace, size, client, waypoints, i, current_pos, pollVars>>

\* current_pos = await _vacuum_position(client); center = current_pos
DancePos ==
    /\ pc = "pos"
    /\ \E o \in MapOutcomes :
         LET r == _vacuum_position(o)
         IN  /\ obs' = Telemetry("get_map", o.kind, obs)
             /\ IF r.exc # ""
                THEN /\ Raise(r.exc)
                     /\ UNCHANGED <<origin, center, current_pos>>
                ELSE /\ origin' = Append(origin, <<"pos", r.val>>)
                     /\ current_pos' = r.val
                     /\ exc' = exc
                     /\ result' = result
                     /\ IF r.val # None
                        THEN /\ center' = r.val
                             /\ pc' = "generate"
                        ELSE /\ center' = center
                             /\ pc' = "center"
    /\ UNCHANGED <<inputVars, randVars, trace, size, client, waypoints, i, pollVars>>

\* center = await _map_center(client), else the DEFAULT_CENTER_X/Y point
DanceMapCenter ==
    /\ pc = "center"
    /\ \E o \in MapOutcomes :
         LET r == _map_center(o)
         IN  /\ obs' = Telemetry("get_map", o.kind, obs)
             /\ IF r.exc # ""
                THEN /\ Raise(r.exc)
                     /\ UNCHANGED <<origin, center>>
                ELSE /\ origin' = Append(origin, <<"map", r.val>>)
                     /\ exc' = exc
                     /\ result' = result
                     /\ center' = IF r.val # None THEN r.val ELSE FallbackCenter(env)
                     /\ pc' = "generate"
    /\ UNCHANGED <<inputVars, randVars, trace, size, client, waypoints, i, current_pos, pollVars>>

(* The pattern dispatch, waypoints = list(points), and the entry of        *)
(* _ensure_ready_for_goto up to its first await.                           *)
DanceGenerate ==
    /\ pc = "generate"
    /\ IF pattern \notin KnownPatterns
       THEN /\ Raise(UnknownPattern)
            /\ UNCHANGED <<waypoints, i>>
       ELSE /\ waypoints' = Points(pattern, center, size)
            /\ exc' = exc
            /\ result' = result
            /\ IF PreflightEnabled(env)
               THEN /\ pc' = "pf_status"
                    /\ i' = i
               ELSE IF 1 <= Len(Points(pattern, center, size))
               THEN /\ pc' = "precheck"
                    /\ i' = 1
               ELSE /\ pc' = "finally"
                    /\ i' = i
    /\ origin' = <<>>
    /\ obs' = IF pattern \in KnownPatterns THEN [obs EXCEPT !.preflights = @ + 1] ELSE obs
    /\ rng' = IF pattern \in KnownPatterns /\ pattern = "spin_crazy"
              THEN DrawnTimes(random_seed(rng), SpinSteps)
              ELSE rng
    /\ UNCHANGED <<inputVars, gens, trace, size, client, center, current_pos, pollVars>>

---------------------------------------------------------------------------
(* _ensure_ready_for_goto, from its status read on.                        *)

SendOutcomes == {"ok"} \cup SendErrors

\* the sends without their try/except: what send_command raises leaves
PreflightExcPropagates(outcome) == IF outcome \in SendErrors THEN outcome ELSE ""

(* What leaves a try: await client.send_command(...) except Exception:     *)
(* pass of the preflight, and its try around get_status: nothing.          *)
PreflightExc(outcome) == ""

\* where dance goes on when _ensure_ready_for_goto returns
PreflightReturn ==
    /\ NextWaypoint(1)
    /\ exc' = exc
    /\ result' = result

PreflightStep(outcome, next) ==
    IF PreflightExc(outcome) # ""
    THEN /\ Raise(PreflightExc(outcome))
         /\ i' = i
    ELSE /\ pc' = next
         /\ i' = i
         /\ exc' = exc
         /\ result' = result

\* st = await client.get_status(); return when the state needs no preflight
PreflightStatus ==
    /\ pc = "pf_status"
    /\ \E st \in StatusOutcomes :
         /\ obs' = Telemetry("get_status", st, obs)
         /\ trace' = Append(trace, Event("get_status", st, "", 0))
         /\ IF PreflightExc(st) # ""
            THEN /\ Raise(PreflightExc(st))
                 /\ i' = i
            ELSE IF PreflightState(st) \in no_op_states
            THEN PreflightReturn
            ELSE /\ pc' = "pf_wake"
                 /\ i' = i
                 /\ exc' = exc
                 /\ result' = result
    /\ UNCHANGED <<inputVars, randVars, size, client, origin, center, waypoints, current_pos, pollVars>>

\* await client.send_command(APP_WAKEUP_ROBOT), best effort
PreflightWake ==
    /\ pc = "pf_wake"
    /\ \E outcome \in SendOutcomes :
         /\ PreflightStep(outcome, "pf_start")
         /\ trace' = Append(trace, Event("send", "APP_WAKEUP_ROBOT", outcome, 0))
    /\ obs' = Command("APP_WAKEUP_ROBOT", obs)
    /\ UNCHANGED <<inputVars, randVars, size, client, origin, center, waypoints, current_pos, pollVars>>

\* APP_START followed at once by APP_PAUSE, without the settle delay
PreflightStartNoSettle ==
    /\ pc = "pf_start"
    /\ \E outcome \in SendOutcomes :
         /\ PreflightStep(outcome, "pf_pause")
         /\ trace' = Append(trace, Event("send", "APP_START", outcome, 0))
    /\ obs' = Command("APP_START", obs)
    /\ UNCHANGED <<inputVars, randVars, size, client, origin, center, waypoints, current_pos, pollVars>>

\* await client.send_command(APP_START), best effort
PreflightStart ==
    /\ pc = "pf_start"
    /\ \E outcome \in SendOutcomes :
         /\ PreflightStep(outcome, "pf_start_sleep")
         /\ trace' = Append(trace, Event("send", "APP_START", outcome, 0))
    /\ obs' = Command("APP_START", obs)
    /\ UNCHANGED <<inputVars, randVars, size, client, origin, center, waypoints, current_pos, pollVars>>

\* await asyncio.sleep(PREFLIGHT_START_DELAY_S)
PreflightStartSleep ==
    /\ pc = "pf_start_sleep"
    /\ pc' = "pf_pause"
    /\ trace' = Append(trace, Event("sleep", "", "", env.start_delay_ms))
    /\ UNCHANGED <<inputVars, randVars, size, client, origin, center, waypoints, i, current_pos,
                   pollVars, exc, result, obs>>

\* await client.send_command(APP_PAUSE), best effort
PreflightPause ==
    /\ pc = "pf_pause"
    /\ \E outcome \in SendOutcomes :
         /\ PreflightStep(outcome, "pf_pause_sleep")
         /\ trace' = Append(trace, Event("send", "APP_PAUSE", outcome, 0))
    /\ obs' = Command("APP_PAUSE", obs)
    /\ UNCHANGED <<inputVars, randVars, size, client, origin, center, waypoints, current_pos, pollVars>>

\* await asyncio.sleep(PREFLIGHT_PAUSE_DELAY_S), and the return to dance
PreflightPauseSleep ==
    /\ pc = "pf_pause_sleep"
    /\ PreflightReturn
    /\ trace' = Append(trace, Event("sleep", "", "", env.pause_delay_ms))
    /\ UNCHANGED <<inputVars, randVars, size, client, origin, center, waypoints, current_pos,
                   pollVars, obs>>

---------------------------------------------------------------------------
(* dance: the waypoint loop.                                               *)

\* the pre-check with dist < arrival_mm
AlreadyNearStrict(cp, wp, arrival_mm) ==
    cp # None /\ arrival_mm >= 0 /\ Dist2(cp, wp) < arrival_mm * arrival_mm

\* the pre-check applied only once a goto has been dispatched
AlreadyNearAfterFirstGoto(cp, wp, arrival_mm) ==
    obs.gotos > 0 /\ cp # None /\ arrival_mm >= 0 /\ Dist2(cp, wp) <= arrival_mm * arrival_mm

\* dist <= arrival_mm of the pre-check
AlreadyNear(cp, wp, arrival_mm) ==
    cp # None /\ arrival_mm >= 0 /\ Dist2(cp, wp) <= arrival_mm * arrival_mm

\* the handler without its raise: the error is logged and the loop goes on
WaypointErrorSwallowed(e) ==
    /\ IF i + 1 <= Len(waypoints)
       THEN /\ pc' = "precheck"
            /\ i' = i + 1
       ELSE /\ pc' = "finally"
            /\ i' = i
    /\ exc' = exc
    /\ result' = result

(* except Exception as e: log.exception(...); raise, the handler around    *)
(* one waypoint: where the run goes when something in it raised e.         *)
WaypointError(e) ==
    /\ Raise(e)
    /\ i' = i

\* current_pos = await _vacuum_position(client); skip when already near
DancePrecheck ==
    /\ pc = "precheck"
    /\ \E o \in MapOutcomes :
         LET r == _vacuum_position(o)
             wp == waypoints[i]
         IN  IF r.exc # ""
             THEN /\ WaypointError(r.exc)
                  /\ current_pos' = current_pos
                  /\ obs' = Telemetry("get_map", o.kind, [obs EXCEPT !.prev = NoSummary])
             ELSE /\ current_pos' = r.val
                  /\ exc' = exc
                  /\ result' = result
                  /\ IF AlreadyNear(r.val, wp, env.arrival_mm)
                     THEN /\ NextWaypoint(i + 1)
                          /\ obs' = Telemetry("get_map", o.kind,
                                [obs EXCEPT !.skipped = @ + 1,
                                            !.prev = [kind |-> "skipped", delay |-> -1]])
                     ELSE /\ pc' = "send"
                          /\ i' = i
                          /\ obs' = Telemetry("get_map", o.kind, [obs EXCEPT !.prev = NoSummary])
    /\ trace' = <<>>
    /\ UNCHANGED <<inputVars, randVars, size, client, origin, center, waypoints, pollVars>>

(* await client.send_command(APP_GOTO_TARGET, [px, py]) and, when it       *)
(* returns, the call of _wait_until_near.                                  *)
DanceSend ==
    /\ pc = "send"
    /\ \E outcome \in SendOutcomes :
         LET wp == waypoints[i]
             o1 == Command("APP_GOTO_TARGET", [obs EXCEPT !.gotos = @ + 1, !.lastGoto = i,
                                          !.lastPayload = wp])
         IN  IF outcome = "ok"
             THEN /\ obs' = [o1 EXCEPT !.sent = @ + 1, !.gate = "open"]
                  /\ target' = wp
                  /\ threshold_mm' = env.arrival_mm
                  /\ timeout_ms' = env.hop_timeout_ms
                  /\ w_ret' = "delay"
                  /\ pc' = "w_enter"
                  /\ UNCHANGED <<i, exc, result>>
             ELSE /\ obs' = [o1 EXCEPT !.failedAt = i, !.raised = outcome]
                  /\ WaypointError(outcome)
                  /\ UNCHANGED <<target, threshold_mm, timeout_ms, w_ret>>
    /\ UNCHANGED <<inputVars, randVars, trace, size, client, origin, center, waypoints, current_pos,
                   elapsed, pos, arrived>>

\* beat_ms // 1000 seconds, in ms
min_beat_ms_floor(b) == (b \div 1000) * 1000

\* min_beat_s = beat_ms / 1000, in ms
min_beat_ms(b) == b

\* the settle delay requested whatever its duration
DelayAfterSettleUnchecked(arr, e, b) ==
    IF arr
    THEN e.settle_ms
    ELSE IF min_beat_ms(b) > 0 THEN min_beat_ms(b) ELSE -1

(* The delay after the arrival gate: the sleep dance requests, -1 when it  *)
(* requests none.                                                          *)
DelayAfter(arr, e, b) ==
    IF arr
    THEN IF e.settle_ms > 0 THEN e.settle_ms ELSE -1
    ELSE IF min_beat_ms(b) > 0 THEN min_beat_ms(b) ELSE -1

\* if arrived: sleep(settle_s) elif min_beat_s > 0: sleep(min_beat_s)
DanceDelay ==
    /\ pc = "delay"
    /\ NextWaypoint(i + 1)
    /\ obs' = [obs EXCEPT !.prev = [kind |-> IF arrived THEN "arrived" ELSE "timeout",
                                     delay |-> DelayAfter(arrived, env, beat_ms)],
                          !.reads = 0, !.sleeps = 0, !.readDur = 0]
    /\ pos' = None
    /\ elapsed' = 0
    /\ arrived' = FALSE
    /\ UNCHANGED <<inputVars, randVars, trace, size, client, origin, center, waypoints, current_pos,
                   target, threshold_mm, timeout_ms, w_ret, exc, result>>

\* finally: await client.async_disconnect()
DanceFinally ==
    /\ pc = "finally"
    /\ pc' = "done"
    /\ obs' = [Op("disconnect", obs) EXCEPT !.disconnects = @ + 1]
    /\ result' = IF exc = "" THEN "ok" ELSE exc
    /\ UNCHANGED <<inputVars, randVars, trace, size, client, origin, center, waypoints, i, current_pos,
                   pollVars, exc>>

---------------------------------------------------------------------------
(* _wait_until_near.                                                       *)

\* distance_mm < threshold_mm
IsNearStrict(p, t, thr) == thr >= 0 /\ Dist2(p, t) < thr * thr

\* distance_mm <= threshold_mm
IsNear(p, t, thr) == thr >= 0 /\ Dist2(p, t) <= thr * thr

\* the loop body giving up (return False) on an unavailable sample
WaitSampleGivesUp(p, t, thr) ==
    IF p = None THEN "false"
    ELSE IF Dist2(p, t) <= thr * thr THEN "return"
    ELSE "sleep"

(* One pass of the loop body on sample p: "return" (True) when it is near, *)
(* else "sleep" (and retry), also when it is unavailable.                  *)
WaitSample(p, t, thr) ==
    IF p = None THEN "sleep"
    ELSE IF IsNear(p, t, thr) THEN "return"
    ELSE "sleep"

\* the loop test with the deadline itself included: loop.time() <= deadline
BeforeDeadlineInclusive(t, timeout) == t <= timeout

\* while loop.time() < deadline, with deadline = entry time + timeout_s
BeforeDeadline(t, timeout) == t < timeout

\* return v
WaitReturn(v) ==
    /\ arrived' = v
    /\ pc' = w_ret

\* the loop head without a return at the deadline: it waits for an arrival
WaitLoopBlocks(t) ==
    /\ pc' = IF t < timeout_ms THEN "w_read" ELSE "w_blocked"
    /\ arrived' = arrived

\* the head of the while loop at time t since the entry
WaitLoop(t) ==
    IF BeforeDeadline(t, timeout_ms)
    THEN /\ pc' = "w_read"
         /\ arrived' = arrived
    ELSE WaitReturn(FALSE)

\* the entry: the deadline is fixed, the loop is entered
WaitEnter ==
    /\ pc = "w_enter"
    /\ elapsed' = 0
    /\ pos' = None
    /\ obs' = [obs EXCEPT !.gate = IF BeforeDeadline(0, timeout_ms) THEN "open" ELSE "idle",
                          !.reads = 0, !.sleeps = 0, !.readDur = 0]
    /\ IF BeforeDeadline(0, timeout_ms)
       THEN /\ pc' = "w_read"
            /\ arrived' = FALSE
       ELSE WaitReturn(FALSE)
    /\ UNCHANGED <<inputVars, randVars, trace, size, client, origin, center, waypoints, i, current_pos,
                   target, threshold_mm, timeout_ms, w_ret, exc, result>>

\* pos = await _vacuum_position(client); return True when near
WaitRead ==
    /\ pc = "w_read"
    /\ \E o \in MapOutcomes, d \in latency :
         LET r == _vacuum_position(o)
             o1 == Telemetry("get_map", o.kind, [obs EXCEPT !.reads = @ + 1, !.readDur = d])
         IN  /\ elapsed' = elapsed + d
             /\ IF r.exc # ""
                THEN /\ pos' = pos
                     /\ arrived' = arrived
                     /\ obs' = o1
                     /\ IF w_ret = "delay"
                        THEN WaypointError(r.exc)
                        ELSE /\ pc' = w_ret
                             /\ exc' = r.exc
                             /\ UNCHANGED <<i, result>>
                ELSE /\ pos' = r.val
                     /\ UNCHANGED <<i, exc, result>>
                     /\ IF WaitSample(r.val, target, threshold_mm) = "sleep"
                        THEN /\ pc' = "w_sleep"
                             /\ arrived' = arrived
                             /\ obs' = o1
                        ELSE /\ WaitReturn(WaitSample(r.val, target, threshold_mm) = "return")
                             /\ obs' = [o1 EXCEPT !.gate = "idle"]
    /\ UNCHANGED <<inputVars, randVars, trace, size, client, origin, center, waypoints, current_pos,
                   target, threshold_mm, timeout_ms, w_ret>>

\* await asyncio.sleep(poll_s), and the loop test
WaitSleep ==
    /\ pc = "w_sleep"
    /\ elapsed' = elapsed + env.poll_ms
    /\ obs' = [obs EXCEPT !.sleeps = @ + 1,
                          !.gate = IF BeforeDeadline(elapsed + env.poll_ms, timeout_ms)
                                   THEN @ ELSE "idle"]
    /\ WaitLoop(elapsed + env.poll_ms)
    /\ UNCHANGED <<inputVars, randVars, trace, size, client, origin, center, waypoints, i, current_pos,
                   target, threshold_mm, timeout_ms, pos, w_ret, exc, result>>

---------------------------------------------------------------------------
(* The specifications.                                                     *)

Next ==
    \/ DanceClient
    \/ DanceDock
    \/ DancePos
    \/ DanceMapCenter
    \/ DanceGenerate
    \/ PreflightStatus
    \/ PreflightWake
    \/ PreflightStart
    \/ PreflightStartSleep
    \/ PreflightPause
    \/ PreflightPauseSleep
    \/ DancePrecheck
    \/ DanceSend
    \/ WaitEnter
    \/ WaitRead
    \/ WaitSleep
    \/ DanceDelay
    \/ DanceFinally

Spec == Init /\ [][Next]_vars

(* The event loop resumes the coroutine whenever what it awaits is over:   *)
(* every sleep ends and every transport call returns or raises.            *)
SpecLive == Init /\ [][Next]_vars /\ WF_vars(Next)

(* _wait_until_near called on its own, as the unit tests call it.          *)
PollTargets == { <<1200, 2700>>, <<1000, 2400>>, <<5000, 6000>> }

PollThresholds == {100, 250}

MaxTimeoutSteps == 5

PollTimeouts == {-1000} \cup {k * 200 : k \in 0..MaxTimeoutSteps}

MaxReadSteps == 1

Latencies == {{0}} \cup {{0, k * 100} : k \in 1..MaxReadSteps}

InitPoll ==
    /\ env = DefaultEnv
    /\ op = [name |-> "_wait_until_near", args |-> <<>>]
    /\ pattern = "circle"
    /\ size_arg = 0
    /\ size = 0
    /\ beat_ms = 0
    /\ latency \in Latencies
    /\ pc = "w_enter"
    /\ client = TRUE
    /\ origin = <<>>
    /\ trace = <<>>
    /\ center = None
    /\ waypoints = <<>>
    /\ i = 0
    /\ current_pos = None
    /\ target \in PollTargets
    /\ threshold_mm \in PollThresholds
    /\ timeout_ms \in PollTimeouts
    /\ elapsed = 0
    /\ pos = None
    /\ arrived = FALSE
    /\ w_ret = "w_done"
    /\ exc = ""
    /\ result = "running"
    /\ obs = Obs0
    /\ rng = Rng0
    /\ gens = <<>>

NextPoll ==
    \/ WaitEnter
    \/ WaitRead
    \/ WaitSleep

SpecPoll == InitPoll /\ [][NextPoll]_vars

---------------------------------------------------------------------------
(* beep, clean, dock and goto: one command inside try/finally.             *)

GotoXs == {-500, 0, 1000, 25600}

GotoYs == {-500, 0, 2000, 25600}

CmdOps ==
    { [name |-> n, args |-> <<>>] : n \in {"beep", "clean", "dock"} }
    \cup { [name |-> "goto", args |-> <<x, y>>] : x \in GotoXs, y \in GotoYs }

\* the RoborockCommand each operation sends
CommandOf(o) ==
    CASE o.name = "beep" -> "FIND_ME"
      [] o.name = "clean" -> "APP_START"
      [] o.name = "dock" -> "APP_CHARGE"
      [] o.name = "goto" -> "APP_GOTO_TARGET"

\* the send outside any try/finally: its exception goes straight to the caller
CmdRaiseNoFinally(e) ==
    /\ pc' = "done"
    /\ exc' = e
    /\ result' = e

\* try: await client.send_command(...) finally: ..., when the send raises e
CmdRaise(e) ==
    /\ pc' = "cmd_finally"
    /\ exc' = e
    /\ result' = result

cmdVars == <<size, origin, center, waypoints, i, current_pos, pollVars>>

\* client = await _client()
CmdClient ==
    /\ pc = "cmd_client"
    /\ \/ /\ client' = TRUE
          /\ pc' = "cmd_send"
          /\ result' = result
       \/ \E e \in ClientErrors :
            /\ client' = FALSE
            /\ pc' = "done"
            /\ result' = e
    /\ obs' = Op("connect", obs)
    /\ UNCHANGED <<inputVars, randVars, trace, cmdVars, exc>>

\* await client.send_command(command) / (APP_GOTO_TARGET, [x, y])
CmdSend ==
    /\ pc = "cmd_send"
    /\ \E outcome \in SendOutcomes :
         /\ trace' = Append(trace, Event("send", CommandOf(op), outcome, 0))
         /\ IF outcome = "ok"
            THEN /\ pc' = "cmd_finally"
                 /\ UNCHANGED <<exc, result>>
            ELSE CmdRaise(outcome)
    /\ obs' = [Command(CommandOf(op), obs) EXCEPT !.lastPayload = op.args]
    /\ UNCHANGED <<inputVars, randVars, client, cmdVars>>

\* finally: await client.async_disconnect()
CmdFinally ==
    /\ pc = "cmd_finally"
    /\ pc' = "done"
    /\ obs' = [Op("disconnect", obs) EXCEPT !.disconnects = @ + 1]
    /\ result' = IF exc = "" THEN "ok" ELSE exc
    /\ UNCHANGED <<inputVars, randVars, trace, client, cmdVars, exc>>

InitCmd ==
    /\ env = DefaultEnv
    /\ op \in CmdOps
    /\ pattern = ""
    /\ size_arg = 0
    /\ size = 0
    /\ beat_ms = 0
    /\ latency = {0}
    /\ pc = "cmd_client"
    /\ client = FALSE
    /\ origin = <<>>
    /\ trace = <<>>
    /\ center = None
    /\ waypoints = <<>>
    /\ i = 0
    /\ current_pos = None
    /\ target = None
    /\ threshold_mm = 0
    /\ timeout_ms = 0
    /\ elapsed = 0
    /\ pos = None
    /\ arrived = FALSE
    /\ w_ret = "done"
    /\ exc = ""
    /\ result = "running"
    /\ obs = Obs0
    /\ rng = Rng0
    /\ gens = <<>>

NextCmd ==
    \/ CmdClient
    \/ CmdSend
    \/ CmdFinally

SpecCmd == InitCmd /\ [][NextCmd]_vars

---------------------------------------------------------------------------
(* _clamp_radius on its own: one call on a requested size under a          *)
(* configured pair MIN_DANCE_RADIUS_MM, MAX_DANCE_RADIUS_MM.               *)

\* the defaults, the pairs of the tests, a one-point range and a pair
\* configured with the minimum above the maximum
ClampPairs ==
    {<<MIN_DANCE_RADIUS_MM, MAX_DANCE_RADIUS_MM>>, <<300, 1000>>,
     <<100, 2000>>, <<500, 500>>, <<1000, 500>>}

ClampEnvs ==
    { [DefaultEnv EXCEPT !.min_mm = p[1], !.max_mm = p[2]] : p \in ClampPairs }

\* requested sizes: negative, zero, and every bound with its two neighbours
ClampSizes == { k * 50 + d : k \in -2..42, d \in {-1, 0, 1} }

ClampOp == [name |-> "_clamp_radius", args |-> <<>>]

\* return max(min_mm, min(size, max_mm))
Clamp ==
    /\ pc = "clamp"
    /\ size' = _clamp_radius(size, env)
    /\ pc' = "clamped"
    /\ UNCHANGED <<inputVars, randVars, trace, client, origin, center, waypoints, i,
                   current_pos, pollVars, exc, result, obs>>

\* _clamp_radius called on its own result; trace keeps the values passed in
ClampAgain ==
    /\ pc = "clamped"
    /\ trace' = Append(trace, size)
    /\ size' = _clamp_radius(size, env)
    /\ pc' = "reclamped"
    /\ UNCHANGED <<inputVars, randVars, client, origin, center, waypoints, i,
                   current_pos, pollVars, exc, result, obs>>

InitClamp ==
    /\ env \in ClampEnvs
    /\ op = ClampOp
    /\ pattern = ""
    /\ size_arg \in ClampSizes
    /\ size = size_arg
    /\ beat_ms = 0
    /\ latency = {0}
    /\ pc = "clamp"
    /\ client = FALSE
    /\ origin = <<>>
    /\ trace = <<>>
    /\ center = None
    /\ waypoints = <<>>
    /\ i = 0
    /\ current_pos = None
    /\ target = None
    /\ threshold_mm = 0
    /\ timeout_ms = 0
    /\ elapsed = 0
    /\ pos = None
    /\ arrived = FALSE
    /\ w_ret = "done"
    /\ exc = ""
    /\ result = "running"
    /\ obs = Obs0
    /\ rng = Rng0
    /\ gens = <<>>

NextClamp ==
    \/ Clamp
    \/ ClampAgain

SpecClamp == InitClamp /\ [][NextClamp]_vars

---------------------------------------------------------------------------
(* The pattern generators on their own: one call, consumed to the end as   *)
(* list(...) does.                                                         *)

GeomCenters == {<<0, 0>>, <<1000, 2000>>, <<-300, 50>>}

GeomSizes == {-50, 0, 1, 100, 800}

\* step counts: those that divide 20 for circle; for figure_eight those
\* whose steps - 1 divides 20, and 0 and 1
GeomOps ==
    { [name |-> "square", args |-> <<c, r>>] : c \in GeomCenters, r \in GeomSizes }
    \cup { [name |-> "circle", args |-> <<c, r, n>>] :
             c \in GeomCenters, r \in GeomSizes, n \in {1, 2, 4, 5, 10, 20} }
    \cup { [name |-> "figure_eight", args |-> <<c, r, n>>] :
             c \in GeomCenters, r \in GeomSizes, n \in {0, 1, 2, 3, 5, 6, 11, 21} }

\* what the generator raises while it is consumed ("" when nothing)
GeomRaises(o) ==
    IF o.name = "figure_eight" /\ figure_eight_raises(o.args[3])
    THEN ZeroDivisionError
    ELSE ""

\* the points the generator has yielded when it ends
GeomPoints(o) ==
    CASE o.name = "square" -> square(o.args[1], o.args[2])
      [] o.name = "circle" -> circle(o.args[1], o.args[2], o.args[3])
      [] o.name = "figure_eight" ->
            IF figure_eight_raises(o.args[3]) THEN <<>>
            ELSE figure_eight(o.args[1], o.args[2], o.args[3])

\* list(square(...)), list(circle(...)), list(figure_eight(...))
GeomCall ==
    /\ pc = "call"
    /\ op \in GeomOps
    /\ waypoints' = GeomPoints(op)
    /\ result' = (IF GeomRaises(op) = "" THEN "ok" ELSE GeomRaises(op))
    /\ pc' = "returned"
    /\ UNCHANGED <<inputVars, randVars, trace, size, client, origin, center, i,
                   current_pos, pollVars, exc, obs>>

InitGeom ==
    /\ env = DefaultEnv
    /\ op \in GeomOps
    /\ pattern = ""
    /\ size_arg = 0
    /\ size = 0
    /\ beat_ms = 0
    /\ latency = {0}
    /\ pc = "call"
    /\ client = FALSE
    /\ origin = <<>>
    /\ trace = <<>>
    /\ center = None
    /\ waypoints = <<>>
    /\ i = 0
    /\ current_pos = None
    /\ target = None
    /\ threshold_mm = 0
    /\ timeout_ms = 0
    /\ elapsed = 0
    /\ pos = None
    /\ arrived = FALSE
    /\ w_ret = "done"
    /\ exc = ""
    /\ result = "running"
    /\ obs = Obs0
    /\ rng = Rng0
    /\ gens = <<>>

NextGeom == GeomCall

SpecGeom == InitGeom /\ [][NextGeom]_vars

---------------------------------------------------------------------------
(* _load_envs: the three env files are loaded into os.environ one after    *)
(* the other.  Here env is os.environ itself, a function from the keys to  *)
(* their values ("unset" when the key is not in it); a file is a record    *)
(* [exists, vals], vals[k] being the value the file gives to k, "absent"   *)
(* when it does not name k and "none" when it names k without a value.     *)

EnvKeys == {"ARRIVAL_POLL_S"}

\* the environment of the process before _load_envs
OsEnvs == [EnvKeys -> {"unset", "os"}]

\* an env file that gives each key the value v, or no value, or lacks it;
\* or that does not exist
EnvFiles(v) ==
    { [exists |-> TRUE, vals |-> f] : f \in [EnvKeys -> {"absent", "none", v}] }
    \cup { [exists |-> FALSE, vals |-> [k \in EnvKeys |-> "absent"]] }

LoadOps ==
    { [name |-> "_load_envs", args |-> <<os, f1, f2, f3>>] :
        os \in OsEnvs, f1 \in EnvFiles(".env"), f2 \in EnvFiles(".env.ballet"),
        f3 \in EnvFiles("controls.env") }

(* load_dotenv(path, override): every key the file gives a value is set in *)
(* os.environ, unless it is already there and override is false.           *)
load_dotenv(e, f, override) ==
    [k \in EnvKeys |->
        IF ~f.exists \/ f.vals[k] \in {"absent", "none"} THEN e[k]
        ELSE IF e[k] # "unset" /\ ~override THEN e[k]
        ELSE f.vals[k]]

(* for k, v in dotenv_values(path).items():                                *)
(*     if k not in os.environ and v is not None: os.environ[k] = v         *)
set_missing(e, f) ==
    [k \in EnvKeys |->
        IF f.vals[k] # "absent" /\ e[k] = "unset" /\ f.vals[k] # "none"
        THEN f.vals[k]
        ELSE e[k]]

loadVars == <<op, pattern, size_arg, beat_ms, latency, trace, size, client, origin,
              center, waypoints, i, current_pos, pollVars, exc, result, obs, randVars>>

\* load_dotenv()
LoadDotenv ==
    /\ pc = "load_env"
    /\ env' = load_dotenv(env, op.args[2], FALSE)
    /\ pc' = "load_ballet"
    /\ UNCHANGED loadVars

\* if ballet_env.exists(): load_dotenv(ballet_env, override=False)
LoadBallet ==
    /\ pc = "load_ballet"
    /\ env' = (IF op.args[3].exists THEN load_dotenv(env, op.args[3], FALSE) ELSE env)
    /\ pc' = "load_controls"
    /\ UNCHANGED loadVars

\* if controls_env.exists(): set the keys that are not present yet
LoadControls ==
    /\ pc = "load_controls"
    /\ env' = (IF op.args[4].exists THEN set_missing(env, op.args[4]) ELSE env)
    /\ pc' = "loaded"
    /\ UNCHANGED loadVars

InitLoad ==
    /\ op \in LoadOps
    /\ env = op.args[1]
    /\ pattern = ""
    /\ size_arg = 0
    /\ size = 0
    /\ beat_ms = 0
    /\ latency = {0}
    /\ pc = "load_env"
    /\ client = FALSE
    /\ origin = <<>>
    /\ trace = <<>>
    /\ center = None
    /\ waypoints = <<>>
    /\ i = 0
    /\ current_pos = None
    /\ target = None
    /\ threshold_mm = 0
    /\ timeout_ms = 0
    /\ elapsed = 0
    /\ pos = None
    /\ arrived = FALSE
    /\ w_ret = "done"
    /\ exc = ""
    /\ result = "running"
    /\ obs = Obs0
    /\ rng = Rng0
    /\ gens = <<>>

NextLoad ==
    \/ LoadDotenv
    \/ LoadBallet
    \/ LoadControls

SpecLoad == InitLoad /\ [][NextLoad]_vars

---------------------------------------------------------------------------
(* spin_crazy on its own: the caller creates two generators with the same  *)
(* arguments and takes their points, one generator after the other         *)
(* ("sequential", as two list(...) calls do) or one point from each in     *)
(* turn ("alternate").                                                     *)

SpinOps ==
    { [name |-> "spin_crazy", args |-> <<c, r, n, order>>] :
        c \in {<<0, 0>>, <<1000, 2000>>}, r \in {400, 1000}, n \in {1, 2, 3, 4},
        order \in {"sequential", "alternate"} }
    \cup { [name |-> "spin_crazy", args |-> <<a[1], a[2], a[3], "sequential">>] :
             a \in { <<<<0, 0>>, 200, 1>>, <<<<0, 0>>, 400, 5>>,
                     <<<<1000, 2000>>, 300, 10>>, <<<<0, 0>>, 1000, 237>> } }

Gen0 == [started |-> FALSE, i |-> 0, out |-> <<>>]

\* the generator the caller takes the next point from
SpinTurn ==
    IF op.args[4] = "sequential"
    THEN IF gens[1].i < op.args[3] THEN 1 ELSE 2
    ELSE IF gens[1].i <= gens[2].i THEN 1 ELSE 2

(* next(g): the body runs from the start (random.seed(42)) or from the     *)
(* last yield to the next yield.                                           *)
SpinNext(g) ==
    /\ pc = "spin"
    /\ g = SpinTurn
    /\ gens[g].i < op.args[3]
    /\ LET r0 == IF gens[g].started THEN rng ELSE random_seed(rng)
       IN  /\ rng' = Drawn(r0)
           /\ gens' = [gens EXCEPT ![g] =
                  [started |-> TRUE,
                   i |-> @.i + 1,
                   out |-> Append(@.out,
                              SpinYield(op.args[1], op.args[2], @.i, op.args[3], r0))]]
    /\ UNCHANGED <<inputVars, trace, size, pc, client, origin, center, waypoints, i,
                   current_pos, pollVars, exc, result, obs>>

InitSpin ==
    /\ env = DefaultEnv
    /\ op \in SpinOps
    /\ pattern = ""
    /\ size_arg = 0
    /\ size = 0
    /\ beat_ms = 0
    /\ latency = {0}
    /\ pc = "spin"
    /\ client = FALSE
    /\ origin = <<>>
    /\ trace = <<>>
    /\ center = None
    /\ waypoints = <<>>
    /\ i = 0
    /\ current_pos = None
    /\ target = None
    /\ threshold_mm = 0
    /\ timeout_ms = 0
    /\ elapsed = 0
    /\ pos = None
    /\ arrived = FALSE
    /\ w_ret = "done"
    /\ exc = ""
    /\ result = "running"
    /\ obs = Obs0
    /\ rng = Rng0
    /\ gens = <<Gen0, Gen0>>

NextSpin == \E g \in 1..2 : SpinNext(g)

SpecSpin == InitSpin /\ [][NextSpin]_vars

---------------------------------------------------------------------------
(* dance from its call to the generated waypoints, with each of the five   *)
(* built-in patterns and more sizes and dock buffers.                      *)

BuiltInPatterns == {"circle", "square", "figure8", "lissajous", "spin_crazy"}

OriginSizes == {100, 200, 201, 333, 400, 799, 800, 1000, 1199, 5000}

\* DOCK_BUFFER_MM unset, and set to 0 and to 500
OriginEnvs == { [DefaultEnv EXCEPT !.buffer_mm = b] : b \in {DOCK_BUFFER_MM, 0, 500} }

InitOrigin ==
    /\ env \in OriginEnvs
    /\ op = DanceOp
    /\ pattern \in BuiltInPatterns
    /\ size_arg \in OriginSizes
    /\ size = size_arg
    /\ beat_ms = 0
    /\ latency = {0}
    /\ pc = "client"
    /\ client = FALSE
    /\ origin = <<>>
    /\ trace = <<>>
    /\ center = None
    /\ waypoints = <<>>
    /\ i = 0
    /\ current_pos = None
    /\ target = None
    /\ threshold_mm = 0
    /\ timeout_ms = 0
    /\ elapsed = 0
    /\ pos = None
    /\ arrived = FALSE
    /\ w_ret = "delay"
    /\ exc = ""
    /\ result = "running"
    /\ obs = Obs0
    /\ rng = Rng0
    /\ gens = <<>>

NextOrigin ==
    \/ DanceClient
    \/ DanceDock
    \/ DancePos
    \/ DanceMapCenter
    \/ DanceGenerate

SpecOrigin == InitOrigin /\ [][NextOrigin]_vars

---------------------------------------------------------------------------
(* dance cancelled by its caller (task.cancel()): asyncio raises           *)
(* CancelledError inside the coroutine at the await it is suspended on.    *)
(* CancelledError derives from BaseException, which no `except Exception`  *)
(* of main.py catches.                                                     *)

CancelledError == "CancelledError"

\* the positions at which dance is suspended on an await inside its try block
SuspensionPcs ==
    {"dock", "pos", "center", "pf_status", "pf_wake", "pf_start", "pf_start_sleep",
     "pf_pause", "pf_pause_sleep", "precheck", "send", "w_read", "w_sleep", "delay"}

\* the best-effort handlers of the preflight catching the cancellation too
CancelTargetSwallowed(p) ==
    IF p = "pf_status" THEN "pf_wake"
    ELSE IF p = "pf_wake" THEN "pf_start"
    ELSE IF p = "pf_start" THEN "pf_start_sleep"
    ELSE IF p = "pf_pause" THEN "pf_pause_sleep"
    ELSE "finally"

(* Where the coroutine goes on when CancelledError is raised at position   *)
(* p: no handler on the way catches it, the finally clause runs.           *)
CancelTarget(p) == "finally"

(* A cancellation at the await of _client() (before the try) goes to the    *)
(* caller at once; one at an await inside the try block runs the finally   *)
(* clause; one at await client.async_disconnect() in the finally clause    *)
(* (a first one, or a second one after the try block was cancelled) goes   *)
(* to the caller with the disconnect called and not finished, and replaces *)
(* the exception the clause was running for.                               *)
DanceCancel ==
    /\ op = DanceOp
    /\ \/ /\ pc = "client"
          /\ obs.cancelled = ""
          /\ pc' = "done"
          /\ exc' = CancelledError
          /\ result' = CancelledError
       \/ /\ pc \in SuspensionPcs
          /\ obs.cancelled = ""
          /\ pc = "delay" => DelayAfter(arrived, env, beat_ms) >= 0
          /\ pc' = CancelTarget(pc)
          /\ exc' = IF CancelTarget(pc) = "finally" THEN CancelledError ELSE exc
          /\ result' = result
       \/ /\ pc = "finally"
          /\ pc' = "done"
          /\ exc' = CancelledError
          /\ result' = CancelledError
    /\ obs' = [obs EXCEPT !.cancelled = pc]
    /\ UNCHANGED <<inputVars, randVars, trace, size, client, origin, center, waypoints, i,
                   current_pos, pollVars>>

NextCancel ==
    \/ Next
    \/ DanceCancel

SpecCancel == Init /\ [][NextCancel]_vars

---------------------------------------------------------------------------
(* Properties of dance (Spec, SpecLive) and of _wait_until_near (SpecPoll). *)

(* C1: in every dance whose client was obtained, async_disconnect is       *)
(* invoked exactly once and nothing touches the transport after it; a run  *)
(* that has ended (completed, goto raised, unknown pattern) has            *)
(* disconnected, and the disconnect was its last interaction.              *)
C1_DisconnectOnceAndLast ==
    /\ obs.disconnects <= 1
    /\ ~obs.lateOps
    /\ (~client => obs.disconnects = 0)
    /\ (pc = "done" /\ client) => (obs.disconnects = 1 /\ obs.lastOp = "disconnect")

C1_Witness ==
    /\ pc = "done"
    /\ client
    /\ obs.failedAt # 0
    /\ result \in SendErrors
    /\ obs.disconnects = 1
    /\ obs.lastOp = "disconnect"

(* C2: once the goto send for waypoint i has raised, the run is in its     *)
(* finally clause or over: that goto was the last one attempted and was    *)
(* attempted once, the loop index stays at i, no poll and no delay has     *)
(* followed, nothing but the disconnect followed on the transport, and the *)
(* caller gets the same error, after the disconnect.                       *)
C2_GotoFailureAborts ==
    obs.failedAt # 0 =>
        /\ pc \in {"finally", "done"}
        /\ i = obs.failedAt
        /\ obs.lastGoto = obs.failedAt
        /\ obs.gotos = obs.sent + 1
        /\ obs.gate = "idle"
        /\ obs.reads = 0
        /\ obs.sleeps = 0
        /\ obs.prev = NoSummary
        /\ exc = obs.raised
        /\ obs.raised \in SendErrors
        /\ (pc = "finally" =>
               result = "running" /\ obs.disconnects = 0 /\ obs.lastOp = "send")
        /\ (pc = "done" =>
               result = obs.raised /\ obs.disconnects = 1 /\ obs.lastOp = "disconnect")

C2_Witness ==
    /\ pc = "done"
    /\ obs.failedAt > 1
    /\ obs.failedAt < Len(waypoints)
    /\ obs.sent > 0
    /\ result = obs.raised

(* C3: every goto sent is for a waypoint later in the sequence than the    *)
(* goto before it (generation order, at most one goto per waypoint), its   *)
(* payload is that waypoint, and it is sent only when the arrival gate of  *)
(* the waypoint dispatched before it has returned.                         *)
C3_GotosInOrderOneAtATime ==
    [][obs'.gotos # obs.gotos =>
          /\ obs'.gotos = obs.gotos + 1
          /\ obs'.lastGoto > obs.lastGoto
          /\ obs'.lastGoto = i
          /\ obs'.lastPayload = waypoints[i]
          /\ obs.gate = "idle"]_vars

C3_Witness ==
    /\ obs.gotos >= 2
    /\ obs.lastGoto > obs.gotos
    /\ obs.gate = "open"
    /\ pc = "w_sleep"

(* C4: a goto is sent for a waypoint exactly when its pre-check sample is  *)
(* unavailable or farther than the arrival threshold; a sample within the  *)
(* threshold (<=) skips the waypoint with no command; every waypoint       *)
(* handled was either sent or skipped, so a run that completes has sent    *)
(* one goto per waypoint not skipped.                                      *)
C4_GotoIffNotNear ==
    /\ pc \in {"send", "w_enter", "w_read", "w_sleep", "delay"} =>
           (current_pos = None
              \/ ~WithinThreshold(current_pos, waypoints[i], env.arrival_mm))
    /\ pc \in {"w_enter", "w_read", "w_sleep", "delay"} => obs.lastGoto = i
    /\ obs.prev.kind = "skipped" =>
           LET k == IF pc = "precheck" THEN i - 1 ELSE i
           IN  /\ current_pos # None
               /\ WithinThreshold(current_pos, waypoints[k], env.arrival_mm)
               /\ obs.lastGoto < k
    /\ pc = "precheck" => obs.sent + obs.skipped = i - 1
    /\ (pc \in {"finally", "done"} /\ exc = "" /\ client) =>
           (obs.sent + obs.skipped = Len(waypoints) /\ obs.gotos = obs.sent)

C4_Witness ==
    /\ pc = "done"
    /\ result = "ok"
    /\ obs.skipped >= 1
    /\ obs.sent >= 1
    /\ obs.sent + obs.skipped = Len(waypoints)

(* C5: when every sleep ends and every transport call returns or raises,   *)
(* every run reaches its end, whatever the telemetry answers: it does not  *)
(* stay on a waypoint forever.                                             *)
C5_DanceAdvances == <>(pc = "done")

C5_Witness ==
    /\ pc = "done"
    /\ result = "ok"
    /\ obs.sent = Len(waypoints)
    /\ obs.sent > 0
    /\ obs.prev.kind = "timeout"
    /\ obs.onlyRaises

(* C6, as stated: after each dispatched waypoint whose arrival gate        *)
(* returned false, one delay of exactly beat_ms/1000 s is taken.           *)
C6_BeatDelayAlways ==
    obs.prev.kind = "timeout" => obs.prev.delay = beat_ms

(* C6: after each dispatched waypoint whose arrival gate returned false,   *)
(* one delay of exactly beat_ms/1000 s is taken when beat_ms > 0, and no   *)
(* delay at all is requested when beat_ms <= 0.                            *)
C6_BeatDelayWhenPositive ==
    obs.prev.kind = "timeout" =>
        obs.prev.delay = (IF beat_ms > 0 THEN beat_ms ELSE -1)

C6_Witness ==
    /\ obs.prev.kind = "timeout"
    /\ beat_ms = 600
    /\ obs.prev.delay = 600
    /\ pc = "precheck"

(* C7: _wait_until_near has returned True exactly when a sample within the *)
(* threshold (<=, boundary included) has been read; that sample was read   *)
(* before the deadline, every earlier sample was followed by one sleep and *)
(* this one by none, and nothing is read after it.                         *)
C7_TrueAtFirstNearSample ==
    /\ (pos # None /\ WithinThreshold(pos, target, threshold_mm)) =>
           (arrived = TRUE /\ pc = w_ret)
    /\ arrived = TRUE =>
           /\ pos # None
           /\ WithinThreshold(pos, target, threshold_mm)
           /\ obs.reads >= 1
           /\ obs.sleeps = obs.reads - 1
           /\ elapsed - obs.readDur < timeout_ms
           /\ obs.lastOp = "get_map"

C7_Witness ==
    /\ pc = "w_done"
    /\ arrived = TRUE
    /\ Dist2(pos, target) = threshold_mm * threshold_mm
    /\ obs.reads = 1
    /\ obs.sleeps = 0

(* C8, as stated: _wait_until_near returns False never before the deadline *)
(* and at most one poll interval plus one telemetry read after it.         *)
C8_FalseWithinOnePollOfDeadline ==
    (pc = "w_done" /\ arrived = FALSE) =>
        /\ elapsed >= timeout_ms
        /\ elapsed - timeout_ms <= env.poll_ms + obs.readDur

(* C8: _wait_until_near returns False never before the deadline; when the  *)
(* timeout is not negative, at most one poll interval plus one telemetry   *)
(* read after it, and with a negative timeout at entry, without a read;    *)
(* every sample read, unavailable or far, was followed by one sleep.       *)
C8_FalseAtDeadline ==
    (pc = "w_done" /\ arrived = FALSE) =>
        /\ elapsed >= timeout_ms
        /\ obs.sleeps = obs.reads
        /\ (pos # None => ~WithinThreshold(pos, target, threshold_mm))
        /\ IF timeout_ms >= 0
           THEN elapsed - timeout_ms <= env.poll_ms + obs.readDur
           ELSE elapsed = 0 /\ obs.reads = 0

C8_Witness ==
    /\ pc = "w_done"
    /\ arrived = FALSE
    /\ obs.reads >= 2
    /\ pos = None
    /\ elapsed > timeout_ms
    /\ timeout_ms > 0

(* C9: whatever the telemetry reads do (map fetches raising, returning     *)
(* nothing or unparseable, status reads raising), in a dance that has its  *)
(* client and a built-in pattern, the runs that reach the preflight, the   *)
(* pre-check and the polling: the only error the run can end with is the   *)
(* one a goto send raised, and with no failing goto send it ends           *)
(* successfully.                                                           *)
C9_TelemetryNeverFatal ==
    (op = DanceOp /\ client /\ pattern \in BuiltInPatterns) =>
        /\ exc # "" => (obs.failedAt # 0 /\ exc = obs.raised /\ exc \in SendErrors)
        /\ pc = "done" =>
               /\ result = (IF exc = "" THEN "ok" ELSE exc)
               /\ obs.failedAt = 0 => result = "ok"

C9_Witness ==
    /\ op = DanceOp
    /\ pattern \in BuiltInPatterns
    /\ pc = "done"
    /\ result = "ok"
    /\ obs.onlyRaises
    /\ PreflightEnabled(env)
    /\ center = <<DEFAULT_CENTER_X, DEFAULT_CENTER_Y>>
    /\ obs.sent = Len(waypoints)

(* C10: when the origin is resolved, the center is the offset dock if the  *)
(* dock read returned one (and nothing else was read); else the robot      *)
(* position if the position read returned one; else what the map-center    *)
(* read returned, or the DEFAULT_CENTER_X/Y point when it returned         *)
(* nothing; resolution raises nothing and ends with a point.               *)
C10_OriginPriority ==
    /\ pc \in {"dock", "pos", "center", "generate"} => exc = ""
    /\ pc = "generate" =>
        /\ center # None
        /\ Len(center) = 2
        /\ Len(origin) >= 1
        /\ origin[1][1] = "dock"
        /\ IF origin[1][2] # None
           THEN /\ Len(origin) = 1
                /\ center = <<origin[1][2][1], origin[1][2][2] + env.buffer_mm + size>>
           ELSE /\ Len(origin) >= 2
                /\ origin[2][1] = "pos"
                /\ IF origin[2][2] # None
                   THEN /\ Len(origin) = 2
                        /\ center = origin[2][2]
                   ELSE /\ Len(origin) = 3
                        /\ origin[3][1] = "map"
                        /\ center = IF origin[3][2] # None
                                    THEN origin[3][2]
                                    ELSE <<DEFAULT_CENTER_X, DEFAULT_CENTER_Y>>

C10_Witness ==
    /\ pc = "generate"
    /\ Len(origin) = 3
    /\ origin[3][2] = None
    /\ center = <<DEFAULT_CENTER_X, DEFAULT_CENTER_Y>>

(* C11: the size is clamped before anything uses it: from the dock read on *)
(* the size in use is the clamped request R, a center taken from a dock    *)
(* at (dx, dy) is exactly (dx, dy + buffer_mm + R), and the waypoints are  *)
(* the pattern of size R around the center (a circle starts at (cx + R,    *)
(* cy)); a request of 5000 under the default maximum gives R = 1200.       *)
C11_ClampBeforeOffset ==
    LET R == _clamp_radius(size_arg, env)
    IN  /\ (op = DanceOp /\ client) => size = R
        /\ (size_arg = 5000 /\ env.max_mm = 1200 /\ client) => size = 1200
        /\ (pc = "generate" /\ Len(origin) >= 1 /\ origin[1][2] # None) =>
               center = <<origin[1][2][1], origin[1][2][2] + env.buffer_mm + R>>
        /\ (pc = "pf_status" \/ (pc = "precheck" /\ i = 1)) =>
               waypoints = Points(pattern, center, R)
        /\ (op = DanceOp /\ waypoints # <<>> /\ pattern = "circle") =>
               (Len(waypoints) = CircleSteps
                  /\ waypoints[1] = <<center[1] + R, center[2]>>)

C11_Witness ==
    /\ pc = "precheck"
    /\ i = 1
    /\ pattern = "circle"
    /\ size_arg = 5000
    /\ size = 1200
    /\ center = <<1000, 2000 + 300 + 1200>>
    /\ waypoints[1] = <<2200, 3500>>

(* The status read that opens the preflight in progress, when there is one. *)
StatusRead == Len(trace) >= 1 /\ trace[1].op = "get_status"

\* the commands of the trace, in order
TraceCommands ==
    LET sends == SelectSeq(trace, LAMBDA ev : ev.op = "send")
    IN  [k \in 1..Len(sends) |-> sends[k].arg]

(* C12: when the state name read at the entry of an enabled preflight is   *)
(* going_to_target, spot, cleaning or returning, preflight returns at      *)
(* once: the status read is its only step (no wake, start, pause, no       *)
(* delay), no command has been sent, the dance is at its first waypoint;   *)
(* and the first command a dance sends outside preflight is a goto.        *)
C12_NoOpStateSkipsPreflight ==
    [][/\ (StatusRead /\ PreflightState(trace[1].arg) \in
                            {"going_to_target", "spot", "cleaning", "returning"})'
              => (/\ Len(trace) = 1
                  /\ pc = "precheck"
                  /\ i = 1
                  /\ obs.lastCmd = "none"
                  /\ obs.gotos = 0)'
       /\ (obs.lastCmd = "none" /\ obs'.lastCmd # "none" /\ pc # "pf_wake")
              => obs'.lastCmd = "APP_GOTO_TARGET"]_vars

C12_Witness ==
    /\ pc = "precheck"
    /\ i = 1
    /\ env.preflight = "unset"
    /\ trace = <<Event("get_status", "Cleaning", "", 0)>>
    /\ obs.lastOp = "get_status"
    /\ obs.lastCmd = "none"

\* the steps of a full preflight after its status read
PreflightOrder ==
    << <<"send", "APP_WAKEUP_ROBOT", 0>>,
       <<"send", "APP_START", 0>>,
       <<"sleep", "", env.start_delay_ms>>,
       <<"send", "APP_PAUSE", 0>>,
       <<"sleep", "", env.pause_delay_ms>> >>

(* C13: when the state read is not a no-op state, the steps of preflight   *)
(* are wake, start, the start settle delay, pause, the pause settle delay, *)
(* in that order and once each, whatever the sends answer; preflight has   *)
(* returned to the dance only when all five are done.                      *)
C13_PreflightOrder ==
    (StatusRead /\ PreflightState(trace[1].arg) \notin
                      {"going_to_target", "spot", "cleaning", "returning"}) =>
        /\ Len(trace) <= 6
        /\ \A k \in 2..Len(trace) :
               <<trace[k].op, trace[k].arg, trace[k].ms>> = PreflightOrder[k - 1]
        /\ pc = << "pf_wake", "pf_start", "pf_start_sleep", "pf_pause",
                   "pf_pause_sleep", "precheck" >>[Len(trace)]
        /\ (pc = "precheck" => i = 1 /\ obs.lastCmd = "APP_PAUSE")

C13_Witness ==
    /\ pc = "precheck"
    /\ i = 1
    /\ Len(trace) = 6
    /\ trace[1].arg = "charging"
    /\ TraceCommands = <<"APP_WAKEUP_ROBOT", "APP_START", "APP_PAUSE">>
    /\ \A k \in 1..6 : trace[k].res = IF trace[k].op = "send" THEN "ok" ELSE ""
    /\ trace[4].ms = PREFLIGHT_START_DELAY_MS
    /\ trace[6].ms = PREFLIGHT_PAUSE_DELAY_MS

(* C14: a preflight send that fails aborts nothing: whichever of the wake, *)
(* start and pause sends have failed, no exception is under way, the run   *)
(* is at the step after the last one done, and once preflight has returned *)
(* all three commands were attempted and the first waypoint is handled.    *)
C14_PreflightFailuresSwallowed ==
    (\E k \in 1..Len(trace) : trace[k].op = "send" /\ trace[k].res \in SendErrors) =>
        /\ exc = ""
        /\ result = "running"
        /\ obs.disconnects = 0
        /\ pc \in {"pf_start", "pf_start_sleep", "pf_pause", "pf_pause_sleep", "precheck"}
        /\ Len(TraceCommands) = (CASE pc = "pf_start" -> 1
                                   [] pc \in {"pf_start_sleep", "pf_pause"} -> 2
                                   [] OTHER -> 3)
        /\ (pc = "precheck" => i = 1 /\ waypoints # <<>>)

C14_Witness ==
    /\ pc = "precheck"
    /\ i = 1
    /\ Len(trace) = 6
    /\ \A k \in {2, 3, 5} : trace[k].op = "send" /\ trace[k].res \in SendErrors
    /\ exc = ""

(* C15: when the status read at the entry of preflight raises, returns     *)
(* nothing or returns no state name, preflight is not skipped: the wake    *)
(* command follows the read, and preflight has returned only after wake,   *)
(* start and pause were all sent.                                          *)
C15_UnknownStateRunsPreflight ==
    (StatusRead /\ trace[1].arg \in {"raise", "none", ""}) =>
        /\ exc = ""
        /\ (Len(trace) = 1 => pc = "pf_wake")
        /\ (Len(trace) >= 2 => trace[2] \in
               {Event("send", "APP_WAKEUP_ROBOT", r, 0) : r \in SendOutcomes})
        /\ (pc \notin {"pf_wake", "pf_start", "pf_start_sleep", "pf_pause"} =>
               TraceCommands = <<"APP_WAKEUP_ROBOT", "APP_START", "APP_PAUSE">>)

C15_Witness ==
    /\ pc = "precheck"
    /\ i = 1
    /\ StatusRead
    /\ trace[1].arg = "raise"
    /\ TraceCommands = <<"APP_WAKEUP_ROBOT", "APP_START", "APP_PAUSE">>

(* C16: with ENABLE_GOTO_PREFLIGHT set to a value other than 1, true or    *)
(* True, preflight does nothing: no status read, no wake, start or pause,  *)
(* no delay, and the only command the dance ever sends is a goto; with the *)
(* variable unset preflight runs: the first waypoint is reached only after *)
(* a status read.                                                          *)
C16_PreflightFlag ==
    /\ (env.preflight \notin {"unset", "1", "true", "True"}) =>
           /\ trace = <<>>
           /\ pc \notin {"pf_status", "pf_wake", "pf_start", "pf_start_sleep",
                         "pf_pause", "pf_pause_sleep"}
           /\ obs.lastOp # "get_status"
           /\ obs.lastCmd \in {"none", "APP_GOTO_TARGET"}
    /\ (env.preflight = "unset" /\ pc = "precheck" /\ i = 1) => StatusRead

C16_Witness ==
    /\ env.preflight = "0"
    /\ pc = "w_read"
    /\ i = 1
    /\ obs.gotos = 1
    /\ obs.lastCmd = "APP_GOTO_TARGET"
    /\ trace = <<>>

(* C17, as stated: a dance with an unknown pattern name fails before any   *)
(* transport interaction: no connect, no telemetry fetch, no command.      *)
C17_UnknownPatternBeforeTransport ==
    (op = DanceOp /\ (exc = UnknownPattern \/ result = UnknownPattern)) =>
        (~client /\ obs.lastOp = "none" /\ obs.disconnects = 0)

(* C18, as stated: a dance ends with full success or one propagated error, *)
(* and the error of a failed goto dispatch identifies the index and the    *)
(* target of the failing waypoint.                                         *)
C18_ErrorIdentifiesWaypoint ==
    (op = DanceOp /\ pc = "done") =>
        /\ result = "ok" \/ result \in SendErrors \cup ClientErrors \cup {UnknownPattern}
        /\ obs.failedAt # 0 =>
               /\ ErrorIndex(result) = obs.failedAt
               /\ ErrorTarget(result) = waypoints[obs.failedAt]

(* C19: beep, clean, dock and goto each send one command, the one of the   *)
(* operation (goto with payload [x, y]), and nothing else; with a client   *)
(* obtained, the disconnect is invoked once, after the send, also when the *)
(* send raised, and then the caller gets the send's error.                 *)
C19_SingleCommandOps ==
    LET command == CASE op.name = "beep" -> "FIND_ME"
                     [] op.name = "clean" -> "APP_START"
                     [] op.name = "dock" -> "APP_CHARGE"
                     [] op.name = "goto" -> "APP_GOTO_TARGET"
    IN  /\ Len(trace) <= 1
        /\ obs.disconnects <= 1
        /\ ~obs.lateOps
        /\ Len(trace) = 1 =>
               /\ trace[1].op = "send"
               /\ trace[1].arg = command
               /\ obs.lastCmd = command
               /\ obs.lastPayload = (IF op.name = "goto" THEN op.args ELSE <<>>)
        /\ obs.disconnects = 1 => (Len(trace) = 1 /\ pc = "done")
        /\ (pc = "done" /\ client) =>
               /\ Len(trace) = 1
               /\ obs.disconnects = 1
               /\ obs.lastOp = "disconnect"
               /\ result = (IF trace[1].res = "ok" THEN "ok" ELSE trace[1].res)
        /\ (pc = "done" /\ ~client) =>
               (trace = <<>> /\ obs.disconnects = 0 /\ result \in ClientErrors)

C19_Witness ==
    /\ pc = "done"
    /\ op = [name |-> "goto", args |-> <<1000, 2000>>]
    /\ trace = <<Event("send", "APP_GOTO_TARGET", "RuntimeError: Network error", 0)>>
    /\ obs.lastPayload = <<1000, 2000>>
    /\ obs.disconnects = 1
    /\ result = "RuntimeError: Network error"

(* C20, as stated: _clamp_radius(x) is max(min_mm, min(x, max_mm)): x when *)
(* min_mm <= x <= max_mm, min_mm for every x below min_mm and max_mm for   *)
(* every x above max_mm, under every configured pair; the defaults are 200 *)
(* and 1200.                                                               *)
C20_ClampCases ==
    (op = ClampOp /\ pc = "clamped") =>
        LET x == size_arg
            lo == env.min_mm
            hi == env.max_mm
            inner == IF x <= hi THEN x ELSE hi
        IN  /\ size = (IF lo >= inner THEN lo ELSE inner)
            /\ (lo <= x /\ x <= hi) => size = x
            /\ x < lo => size = lo
            /\ x > hi => size = hi
            /\ env = DefaultEnv => (lo = 200 /\ hi = 1200)

(* C20, amended: _clamp_radius(x) is max(min_mm, min(x, max_mm)): x when   *)
(* min_mm <= x <= max_mm, min_mm for every x below min_mm, and max_mm for  *)
(* every x above max_mm when min_mm <= max_mm; with min_mm > max_mm it is  *)
(* min_mm for every x.  The defaults are 200 and 1200.                     *)
C20_ClampCasesOrdered ==
    (op = ClampOp /\ pc = "clamped") =>
        LET x == size_arg
            lo == env.min_mm
            hi == env.max_mm
            inner == IF x <= hi THEN x ELSE hi
        IN  /\ size = (IF lo >= inner THEN lo ELSE inner)
            /\ (lo <= x /\ x <= hi) => size = x
            /\ x < lo => size = lo
            /\ (x > hi /\ lo <= hi) => size = hi
            /\ lo > hi => size = lo
            /\ env = DefaultEnv => (lo = 200 /\ hi = 1200)

C20_Witness ==
    /\ op = ClampOp
    /\ pc = "clamped"
    /\ env = DefaultEnv
    /\ size_arg = 1201
    /\ size = 1200

(* C21, as stated: for every requested size and every configured pair     *)
(* (min_mm, max_mm), in either order, the clamped size lies within         *)
(* [min_mm, max_mm].                                                       *)
C21_ClampedWithinRange ==
    (op = ClampOp /\ pc \in {"clamped", "reclamped"}) =>
        (env.min_mm <= size /\ size <= env.max_mm)

(* C21, amended: for every requested size and every configured pair with   *)
(* min_mm <= max_mm the clamped size lies within [min_mm, max_mm]; for a    *)
(* pair with min_mm > max_mm it is min_mm, which is above max_mm.           *)
C21_ClampedWithinOrderedRange ==
    (op = ClampOp /\ pc \in {"clamped", "reclamped"}) =>
        /\ env.min_mm <= env.max_mm => (env.min_mm <= size /\ size <= env.max_mm)
        /\ env.min_mm > env.max_mm => (size = env.min_mm /\ size > env.max_mm)

C21_Witness ==
    /\ op = ClampOp
    /\ pc = "clamped"
    /\ env.min_mm = 300
    /\ env.max_mm = 1000
    /\ size_arg = 1201
    /\ size = 1000

(* C22: clamping is idempotent: clamping the clamped size again, under the *)
(* same configuration, returns it unchanged, whatever the requested size   *)
(* and the configured pair.                                                *)
C22_ClampIdempotent ==
    (op = ClampOp /\ pc = "reclamped") =>
        /\ Len(trace) = 1
        /\ size = trace[1]

C22_Witness ==
    /\ op = ClampOp
    /\ pc = "reclamped"
    /\ env = DefaultEnv
    /\ size_arg = 1201
    /\ trace = <<1200>>
    /\ size = 1200

\* twice the signed area of the closed path p (shoelace formula): positive
\* when p runs counter-clockwise in a frame with +X right and +Y up
Area2(p) ==
    LET cross(k) == p[k][1] * p[k + 1][2] - p[k + 1][1] * p[k][2]
    IN  cross(1) + cross(2) + cross(3) + cross(4)

\* p starts at the corner with the least x and the least y
StartsBottomLeft(p) ==
    \A k \in 1..4 : p[1][1] <= p[k][1] /\ p[1][2] <= p[k][2]

(* C23: square(center, half) returns 5 points, the last equal to the       *)
(* first, the first four being the four corners (cx +- half, cy +- half),  *)
(* consecutive points differing along one axis by the side 2*|half|.       *)
C23_SquareCorners ==
    (op.name = "square" /\ pc = "returned") =>
        LET c == op.args[1]
            h == op.args[2]
            p == waypoints
        IN  /\ result = "ok"
            /\ Len(p) = 5
            /\ p[1] = p[5]
            /\ {p[k] : k \in 1..4} = {<<c[1] + sx * h, c[2] + sy * h>> : sx, sy \in {-1, 1}}
            /\ \A k \in 1..4 :
                 \/ p[k][1] = p[k + 1][1] /\ Abs(p[k][2] - p[k + 1][2]) = 2 * Abs(h)
                 \/ p[k][2] = p[k + 1][2] /\ Abs(p[k][1] - p[k + 1][1]) = 2 * Abs(h)

C23_Witness ==
    /\ pc = "returned"
    /\ op = [name |-> "square", args |-> <<<<1000, 2000>>, 800>>]
    /\ waypoints = << <<200, 1200>>, <<1800, 1200>>, <<1800, 2800>>,
                      <<200, 2800>>, <<200, 1200>> >>

(* C24, as stated: with +Y up, the corners of square (half > 0) run        *)
(* clockwise from the bottom-left corner, which closes the path.           *)
C24_SquareClockwise ==
    (op.name = "square" /\ pc = "returned" /\ op.args[2] > 0) =>
        /\ StartsBottomLeft(waypoints)
        /\ waypoints[5] = waypoints[1]
        /\ Area2(waypoints) < 0

(* C24, amended: with +Y up, the corners of square (half > 0) run          *)
(* counter-clockwise from the bottom-left corner: bottom-left,             *)
(* bottom-right, top-right, top-left, and the bottom-left corner again.    *)
C24_SquareCounterClockwise ==
    (op.name = "square" /\ pc = "returned" /\ op.args[2] > 0) =>
        LET c == op.args[1]
            h == op.args[2]
        IN  /\ StartsBottomLeft(waypoints)
            /\ waypoints[5] = waypoints[1]
            /\ Area2(waypoints) > 0
            /\ waypoints[2] = <<c[1] + h, c[2] - h>>
            /\ waypoints[3] = <<c[1] + h, c[2] + h>>
            /\ waypoints[4] = <<c[1] - h, c[2] + h>>

C24_Witness ==
    /\ pc = "returned"
    /\ op = [name |-> "square", args |-> <<<<0, 0>>, 100>>]
    /\ waypoints[1] = <<-100, -100>>
    /\ waypoints[2] = <<100, -100>>
    /\ waypoints[3] = <<100, 100>>
    /\ waypoints[4] = <<-100, 100>>

(* C25: circle(center, r, steps) with steps >= 1 yields steps points, the  *)
(* first being (cx + r, cy); it does not yield the first point again at    *)
(* the end (with steps >= 2 and r # 0 the last point differs from it).     *)
C25_CirclePoints ==
    (op.name = "circle" /\ pc = "returned" /\ op.args[3] >= 1) =>
        LET c == op.args[1]
            r == op.args[2]
            steps == op.args[3]
        IN  /\ result = "ok"
            /\ Len(waypoints) = steps
            /\ waypoints[1] = <<c[1] + r, c[2]>>
            /\ (steps >= 2 /\ r # 0) => waypoints[steps] # waypoints[1]

C25_Witness ==
    /\ pc = "returned"
    /\ op = [name |-> "circle", args |-> <<<<1000, 2000>>, 100, 4>>]
    /\ waypoints = << <<1100, 2000>>, <<1000, 2100>>, <<900, 2000>>, <<1000, 1900>> >>

(* C29: figure_eight(center, r, steps) yields steps points when            *)
(* steps >= 2; with steps = 1 it yields no point and raises                *)
(* ZeroDivisionError.                                                      *)
C29_FigureEightSteps ==
    (op.name = "figure_eight" /\ pc = "returned") =>
        /\ op.args[3] >= 2 => (result = "ok" /\ Len(waypoints) = op.args[3])
        /\ op.args[3] = 1 => (result = ZeroDivisionError /\ waypoints = <<>>)

C29_Witness ==
    /\ pc = "returned"
    /\ op = [name |-> "figure_eight", args |-> <<<<0, 0>>, 800, 1>>]
    /\ waypoints = <<>>
    /\ result = ZeroDivisionError

(* C30: after a dispatched waypoint at most one delay is taken, chosen by  *)
(* the arrival result: the settle delay when arrival was confirmed and     *)
(* settle > 0, the beat delay when it was not and beat > 0; a waypoint the *)
(* pre-check skipped takes none, and no delay of zero or negative duration *)
(* is requested (with beat_ms = 0 the next waypoint follows a timeout at   *)
(* once).                                                                  *)
C30_OneDelayByArrival ==
    LET d == obs.prev.delay
    IN  /\ obs.prev.kind = "arrived" =>
               d = (IF env.settle_ms > 0 THEN env.settle_ms ELSE -1)
        /\ obs.prev.kind = "timeout" =>
               d = (IF beat_ms > 0 THEN beat_ms ELSE -1)
        /\ obs.prev.kind = "skipped" => d = -1
        /\ d = -1 \/ d > 0
        /\ obs.prev.kind # "none" => pc \in {"precheck", "finally", "done"}

C30_Witness ==
    /\ obs.prev.kind = "arrived"
    /\ env.settle_ms = 0
    /\ obs.prev.delay = -1
    /\ pc = "precheck"
    /\ i = 2

\* the value a file gives to k ("unset" when it gives none)
Given(f, k) ==
    IF f.exists /\ f.vals[k] \notin {"absent", "none"} THEN f.vals[k] ELSE "unset"

(* C28, as stated: after _load_envs the effective value of a key is the OS *)
(* environment's if it has one, else that of .envs/controls.env, else that *)
(* of .env.ballet, else that of .env.                                      *)
C28_LaterFileWins ==
    (op.name = "_load_envs" /\ pc = "loaded") =>
        \A k \in EnvKeys :
            LET os == op.args[1][k]
                dotenv == Given(op.args[2], k)
                ballet == Given(op.args[3], k)
                controls == Given(op.args[4], k)
            IN  env[k] = (IF os # "unset" THEN os
                          ELSE IF controls # "unset" THEN controls
                          ELSE IF ballet # "unset" THEN ballet
                          ELSE dotenv)

(* C26: two calls of spin_crazy with the same arguments, each consumed to  *)
(* the end before the next, give the same points: whatever the second has  *)
(* yielded so far is what the first yielded at the same places, and both   *)
(* yield steps points.                                                     *)
C26_SpinReproducible ==
    (op.name = "spin_crazy" /\ op.args[4] = "sequential") =>
        /\ Len(gens[2].out) <= Len(gens[1].out)
        /\ \A k \in 1..Len(gens[2].out) : gens[2].out[k] = gens[1].out[k]
        /\ gens[2].i = op.args[3] =>
               (gens[1].out = gens[2].out /\ Len(gens[2].out) = op.args[3])

C26_Witness ==
    /\ op = [name |-> "spin_crazy", args |-> <<<<0, 0>>, 400, 5, "sequential">>]
    /\ gens[1].i = 5
    /\ gens[2].i = 5
    /\ gens[2].out = gens[1].out
    /\ gens[1].out = << <<-49, -154>>, <<-389, 151>>, <<103, -37>>, <<-242, 400>>, <<74, 219>> >>
    /\ rng = [seeded |-> TRUE, pos |-> 5, calls |-> 32]

(* C27, as stated: every point spin_crazy yields lies within 2 * radius of *)
(* the center.                                                             *)
C27_SpinWithinTwoRadii ==
    op.name = "spin_crazy" =>
        \A g \in 1..2 : \A k \in 1..Len(gens[g].out) :
            Dist2(gens[g].out[k], op.args[1]) <= 4 * op.args[2] * op.args[2]

(* C31: with a timeout of zero or less _wait_until_near reads no telemetry *)
(* and returns False at entry, whatever the robot's position; True is      *)
(* returned only on a sample whose read began before the deadline.         *)
C31_NoReadWithoutTime ==
    op.name = "_wait_until_near" =>
        /\ timeout_ms <= 0 =>
               /\ obs.reads = 0
               /\ obs.lastOp = "none"
               /\ pos = None
               /\ arrived = FALSE
               /\ pc \in {"w_enter", "w_done"}
               /\ elapsed = 0
        /\ arrived = TRUE =>
               /\ timeout_ms > 0
               /\ obs.reads >= 1
               /\ elapsed - obs.readDur < timeout_ms
               /\ WithinThreshold(pos, target, threshold_mm)

C31_Witness ==
    /\ op.name = "_wait_until_near"
    /\ timeout_ms = 0
    /\ pc = "w_done"
    /\ arrived = FALSE
    /\ obs.reads = 0
    /\ obs.sleeps = 0

(* C32, as stated: whichever read of the origin resolution reported the    *)
(* dock position the center was taken from, the center is that position    *)
(* offset by (0, buffer_mm + size), never the dock position itself.        *)
C32_DockCenterAlwaysOffset ==
    (op = DanceOp /\ pc = "generate" /\ Len(origin) >= 1) =>
        LET last == origin[Len(origin)]
        IN  /\ center \notin DockSamples
            /\ last[2] \in DockSamples =>
                   center = _offset_center_from_dock(last[2], size, env)

(* C33: when dance takes its center from the dock (the dock position       *)
(* offset by buffer_mm + size along +Y), every waypoint it generates, for  *)
(* each of the five built-in patterns and the clamped size, has            *)
(* y >= dock_y + buffer_mm.                                                *)
C33_WaypointsClearOfDock ==
    [][(pc = "generate" /\ Len(origin) = 1 /\ origin[1][2] # None) =>
          /\ Len(waypoints') >= 5
          /\ \A k \in 1..Len(waypoints') :
                waypoints'[k][2] >= origin[1][2][2] + env.buffer_mm]_vars

C33_Witness ==
    /\ pattern = "spin_crazy"
    /\ size_arg = 5000
    /\ env.buffer_mm = DOCK_BUFFER_MM
    /\ pc = "pf_status"
    /\ center = <<1000, 3500>>
    /\ Len(waypoints) = SpinSteps
    /\ waypoints[20] = <<502, 2644>>
    /\ rng = [seeded |-> TRUE, pos |-> SpinSteps, calls |-> 124]
    /\ \A k \in 1..Len(waypoints) : waypoints[k][2] >= 2644

\* the positions of the coroutine inside _ensure_ready_for_goto
PreflightPcs == {"pf_status", "pf_wake", "pf_start", "pf_start_sleep", "pf_pause",
                 "pf_pause_sleep"}

\* the positions inside the waypoint loop
LoopPcs == {"precheck", "send", "w_enter", "w_read", "w_sleep", "delay"}

(* C34: _ensure_ready_for_goto is called once in a dance with a known      *)
(* pattern, after the center and the waypoints are there and before the    *)
(* first waypoint is handled; no wake, start or pause command follows a    *)
(* goto, and the loop never goes back into the preflight.                  *)
C34_PreflightOnceBeforeLoop ==
    op = DanceOp =>
        /\ obs.preflights <= 1
        /\ obs.preflights = 1 <=>
               (pattern \in KnownPatterns /\ (pc \in PreflightPcs \cup LoopPcs \/ i >= 1))
        /\ pc \in PreflightPcs =>
               /\ PreflightEnabled(env)
               /\ Len(center) = 2
               /\ waypoints = Points(pattern, center, size)
               /\ i = 0
               /\ obs.gotos = 0
               /\ obs.skipped = 0
        /\ pc \in LoopPcs => (i >= 1 /\ obs.preflights = 1)
        /\ obs.lastCmd \in {"APP_WAKEUP_ROBOT", "APP_START", "APP_PAUSE"} => obs.gotos = 0

C34_Witness ==
    /\ op = DanceOp
    /\ PreflightEnabled(env)
    /\ pc = "done"
    /\ result = "ok"
    /\ obs.preflights = 1
    /\ obs.gotos >= 2
    /\ obs.skipped >= 1

(* C35: a cancellation delivered while dance is suspended inside its try   *)
(* block ends the run: the coroutine goes to the finally clause, where     *)
(* async_disconnect is called, and to nowhere else from there; it sends no *)
(* command and reads nothing more.  The disconnect is the only transport   *)
(* call that follows, and the caller gets the CancelledError, whether the  *)
(* disconnect finishes or is itself cancelled.                             *)
C35_CancellationEndsRun ==
    [][/\ obs'.cancelled \in SuspensionPcs =>
             /\ pc' \in {"finally", "done"}
             /\ exc' = CancelledError
             /\ obs'.disconnects = IF pc' = "done" THEN 1 ELSE 0
             /\ pc' = "done" => (result' = CancelledError /\ obs'.lastOp = "disconnect")
       /\ obs.cancelled \in SuspensionPcs =>
             /\ pc = "finally"
             /\ obs.disconnects = 0
             /\ pc' = "done"
             /\ result' = CancelledError
             /\ \/ obs'.lastOp = "disconnect" /\ obs'.disconnects = 1
                \/ obs'.cancelled = "finally" /\ obs'.lastOp = obs.lastOp
                                              /\ obs'.disconnects = 0
             /\ obs'.gotos = obs.gotos
             /\ obs'.lastCmd = obs.lastCmd
             /\ obs'.reads = obs.reads]_vars

C35_Witness ==
    /\ obs.cancelled = "pf_start_sleep"
    /\ pc = "done"
    /\ result = CancelledError
    /\ obs.disconnects = 1
    /\ obs.lastCmd = "APP_START"
    /\ obs.gotos = 0

(* C36: every waypoint whose pre-check sample is within the threshold is   *)
(* skipped, the first one too: the skip sends nothing, takes no delay and  *)
(* goes on to the next waypoint; a dance whose waypoints were all skipped  *)
(* has run its preflight, sent no goto, and ends successfully.             *)
C36_AllWaypointsSkippable ==
    [][/\ (/\ pc = "precheck"
           /\ current_pos' # None
           /\ WithinThreshold(current_pos', waypoints[i], env.arrival_mm)) =>
             /\ obs'.skipped = obs.skipped + 1
             /\ obs'.gotos = obs.gotos
             /\ obs'.lastCmd = obs.lastCmd
             /\ obs'.prev = [kind |-> "skipped", delay |-> -1]
             /\ elapsed' = elapsed
             /\ IF i < Len(waypoints) THEN pc' = "precheck" /\ i' = i + 1
                                      ELSE pc' = "finally"
       /\ (op' = DanceOp /\ Len(waypoints') > 0 /\ obs'.skipped = Len(waypoints')) =>
             /\ obs'.gotos = 0
             /\ obs'.lastCmd # "APP_GOTO_TARGET"
             /\ obs'.preflights = 1
             /\ pc' \in {"finally", "done"}
             /\ exc' = ""
             /\ pc' = "done" => (result' = "ok" /\ obs'.disconnects = 1)]_vars

C36_Witness ==
    /\ op = DanceOp
    /\ pattern = "circle"
    /\ size = MIN_DANCE_RADIUS_MM
    /\ env.arrival_mm = ARRIVAL_THRESHOLD_MM
    /\ center = <<1000, 2500>>
    /\ current_pos = center
    /\ Len(waypoints) = CircleSteps
    /\ obs.skipped = CircleSteps
    /\ obs.gotos = 0
    /\ obs.lastCmd = "APP_PAUSE"
    /\ pc = "done"
    /\ result = "ok"

(* C37, as stated: whatever the order in which two spin_crazy generators   *)
(* with the same arguments are consumed, each yields the points it yields  *)
(* when consumed alone: its k-th point is the k-th point of                *)
(* list(spin_crazy(center, radius_mm, steps)).                             *)
C37_SpinIndependentOfInterleaving ==
    op.name = "spin_crazy" =>
        \A g \in 1..2 : \A k \in 1..Len(gens[g].out) :
            gens[g].out[k] = spin_crazy_steps(op.args[1], op.args[2], op.args[3])[k]

(* C38: a dance with an unknown pattern name sends no command at all: it   *)
(* connects, reads the map for the origin, raises, and disconnects once.   *)
C38_UnknownPatternSendsNothing ==
    (op = DanceOp /\ pattern \notin BuiltInPatterns) =>
        /\ obs.lastCmd = "none"
        /\ obs.gotos = 0
        /\ obs.preflights = 0
        /\ trace = <<>>
        /\ waypoints = <<>>
        /\ obs.lastOp \in {"none", "connect", "get_map", "disconnect"}
        /\ pc \in {"client", "dock", "pos", "center", "generate", "finally", "done"}
        /\ pc = "finally" => (exc = UnknownPattern /\ obs.disconnects = 0)
        /\ (pc = "done" /\ client) =>
               /\ result = UnknownPattern
               /\ obs.disconnects = 1
               /\ obs.lastOp = "disconnect"
               /\ ~obs.lateOps

C38_Witness ==
    /\ op = DanceOp
    /\ pattern = "polka"
    /\ pc = "done"
    /\ result = UnknownPattern
    /\ center = <<1000, 2000 + DOCK_BUFFER_MM + MIN_DANCE_RADIUS_MM>>
    /\ obs.disconnects = 1
    /\ obs.lastCmd = "none"

(* C39: _vacuum_position returns the robot's position or None, never the   *)
(* dock, while _map_center returns the dock when the map has one; so the   *)
(* position the pre-check skips on and the one _wait_until_near returns    *)
(* True on are robot positions, and a map with only the dock gives None.   *)
C39_GatingUsesRobotPositionOnly ==
    [][/\ pc = "client" =>
             \A o \in MapOutcomes :
               /\ _vacuum_position(o) = Returned(IF o.kind = "ok" THEN o.vacuum_position
                                                                 ELSE None)
               /\ (o.kind = "ok" /\ o.charger # None) => _map_center(o) = Returned(o.charger)
               /\ (o.kind = "ok" /\ o.charger = None) =>
                      _map_center(o) = Returned(o.vacuum_position)
       /\ pc = "precheck" =>
             /\ current_pos' \in PosSamples \cup {None}
             /\ obs'.skipped > obs.skipped => current_pos' \in PosSamples
       /\ pc = "w_read" =>
             /\ pos' \in PosSamples \cup {None}
             /\ arrived' => pos' \in PosSamples]_vars

C39_Witness ==
    /\ op = DanceOp
    /\ center \in DockSamples
    /\ pc = "w_sleep"
    /\ pos = None
    /\ current_pos = None
    /\ WithinThreshold(center, waypoints[i], env.arrival_mm)
    /\ obs.skipped = 0
    /\ obs.gotos = 1

====
